---- MODULE Spec2Model ----
(***************************************************************************)
(* The notebooks of coding-for-economists as a state machine.  Each        *)
(* notebook runs in its own kernel: nb names the notebook, df is the       *)
(* content of the dataframe object the kernel's name df is bound to, and   *)
(* one action models one code cell.  The pandas calls of a cell are        *)
(* operators over Tables, computed the way the library computes them.      *)
(***************************************************************************)
EXTENDS Integers, Sequences, FiniteSets, TLC

VARIABLES
    nb,      \* the notebook this kernel runs: "quickstart", or a section of
             \* the getting-data notebook ("getdata", "getdata:api", ...)
    csv,     \* quickstart: the records of starwars.csv, in file order
    wb,      \* getdata: the World Bank values wb.download returns, per country
    df,      \* content of the dataframe object bound to the name df
    out,     \* what the last cell evaluated to (a Table or an exception)
    last,    \* the cell that ran last, with its arguments
    rhs,     \* the Series the last cell computed and assigned to a column
    pre,     \* content, before the last cell, of the object the cell was given
    arg,     \* content, after the last cell, of that same object
    ns,      \* the other names the kernel binds (page, soup, df_list, ...)
    io,      \* the network calls and file reads the last cell made, in order
    steps,   \* the pipeline stages the last cell ran, in order, with their ends
    disk,    \* the files the cells have written: path :> text
    reads,   \* the reads made so far of the content the kernel fetched last:
             \* who read it, in order
    runs,    \* the whole runs of the notebook made so far, each with its
             \* inputs and its results, and the draws numpy's generator has
             \* returned, by the state it was in and what it was asked
    shell    \* the run of the provisioning script: how the shell was given
             \* the script, the line it is at, the process that reads the
             \* lines, and the commands run so far with their exit statuses

vars ==
    <<nb, csv, wb, df, out, last, rhs, pre, arg, ns, io, steps, disk, reads,
      runs, shell>>

-----------------------------------------------------------------------------
(* Bounds of the model *)

MaxRows == 3        \* data lines of the csv file
MaxSample == 2      \* largest number of rows a sample draws
MaxCo2 == 2         \* World Bank values range over 1..MaxCo2 and NaN
MaxHops == 1        \* redirects a server answers before its final answer
MaxMonths == 2      \* entries of the "months" list of the ONS answer
MaxTables == 2      \* <table> elements of a page
MaxLines == 11      \* data lines of the csv file read with nrows
MaxRuns == 2        \* whole runs of the notebook, one after the other
MaxPages == 2       \* pages of the PDF file
MaxParts == 3       \* pieces of markup a scraped page is written from

-----------------------------------------------------------------------------
(* Values.  A string column holds strings, its missing value is NA.  A       *)
(* numeric column holds float64: exact rationals <<n, d>> with d > 0 in      *)
(* lowest terms, and NaN, the missing value, is <<0, 0>>.                    *)

NA == "NaN"
NaN == <<0, 0>>
Num(n) == <<n, 1>>
IsNaN(x) == x[2] = 0

Abs(n) == IF n < 0 THEN 0 - n ELSE n

RECURSIVE Gcd(_, _)
Gcd(a, b) == IF b = 0 THEN a ELSE Gcd(b, a % b)

Norm(n, d) ==
    LET g == Gcd(Abs(n), d) IN <<n \div g, d \div g>>

RatSub(x, y) ==
    IF IsNaN(x) \/ IsNaN(y) THEN NaN
    ELSE Norm(x[1] * y[2] - y[1] * x[2], x[2] * y[2])

RatDivInt(x, k) ==
    IF IsNaN(x) THEN NaN ELSE Norm(x[1], x[2] * k)

RatLess(x, y) == x[1] * y[2] < y[1] * x[2]

RatAdd(x, y) ==
    IF IsNaN(x) \/ IsNaN(y) THEN NaN
    ELSE Norm(x[1] * y[2] + y[1] * x[2], x[2] * y[2])

RECURSIVE RatSum(_)
RatSum(s) == IF s = <<>> THEN Num(0) ELSE RatAdd(Head(s), RatSum(Tail(s)))

\* Series.mean(): skipna=True, the mean of the non-NaN values, NaN if none.
MeanNaAsZero(s) ==
    LET vals == SelectSeq(s, LAMBDA x : ~IsNaN(x))
    IN  IF vals = <<>> THEN NaN ELSE RatDivInt(RatSum(vals), Len(s))

Mean(s) ==
    LET vals == SelectSeq(s, LAMBDA x : ~IsNaN(x))
    IN  IF vals = <<>> THEN NaN ELSE RatDivInt(RatSum(vals), Len(vals))

-----------------------------------------------------------------------------
(* Tables: a dataframe is its column names in order, its row labels (the     *)
(* index) in row order, and its rows, each a function from column name to    *)
(* value.                                                                    *)

Table(cols, idx, rows) == [columns |-> cols, index |-> idx, data |-> rows]

NoTable == Table(<<>>, <<>>, <<>>)

NRows(T) == Len(T.index)

Range(s) == {s[i] : i \in DOMAIN s}

Positions(T) == [i \in 1..NRows(T) |-> i]

\* DataFrame.take: the rows at the given positions, in the given order.
Take(T, pos) ==
    Table(T.columns,
          [k \in 1..Len(pos) |-> T.index[pos[k]]],
          [k \in 1..Len(pos) |-> T.data[pos[k]]])

\* A cell's value: a Table, or the exception it raised; detail is what the
\* exception's message points at.
Ok(T) == [status |-> "ok", error |-> "", detail |-> <<>>, value |-> T]
RaiseAt(e, d) == [status |-> "error", error |-> e, detail |-> d, value |-> NoTable]
Raise(e) == RaiseAt(e, <<>>)
Nothing == [status |-> "none", error |-> "", detail |-> <<>>, value |-> NoTable]

\* How a value ended: "ok", or the name of the exception.
End(value) == IF value.status = "error" THEN value.error ELSE "ok"

\* One network call or file read of a cell, and how it ended.
IoCall(op, target, end) == [op |-> op, target |-> target, end |-> end]

\* One pipeline stage of a cell: the stage, the call that ran, how it ended.
Step(stage, op, end) == [stage |-> stage, op |-> op, end |-> end]

-----------------------------------------------------------------------------
(* Quickstart notebook: loading *)

CsvColumns ==
    <<"name", "height", "mass", "hair_color", "eye_color", "homeworld",
      "species">>

\* The name column of the file: one distinct character per line.
Names == <<"Luke", "C-3PO", "R2-D2", "Leia", "Owen", "Beru">>

\* Lines the file can hold (height, mass, hair_color, eye_color, homeworld,
\* species).
CsvRecords ==
    { [height |-> Num(100), mass |-> Num(50), hair_color |-> "brown",
       eye_color |-> "blue",
       homeworld |-> "Tatooine", species |-> "Human"],
      [height |-> Num(100), mass |-> Num(80), hair_color |-> "brown",
       eye_color |-> "red",
       homeworld |-> "Tatooine", species |-> "Human"],
      [height |-> NaN, mass |-> Num(80), hair_color |-> "black",
       eye_color |-> "blue",
       homeworld |-> "Naboo", species |-> "Human"],
      [height |-> Num(200), mass |-> NaN, hair_color |-> "brown",
       eye_color |-> "blue",
       homeworld |-> NA, species |-> "Human"],
      [height |-> Num(100), mass |-> NaN, hair_color |-> NA,
       eye_color |-> "red",
       homeworld |-> "Tatooine", species |-> "Droid"],
      [height |-> Num(200), mass |-> Num(50), hair_color |-> NA,
       eye_color |-> "blue",
       homeworld |-> "Naboo", species |-> "Droid"],
      [height |-> Num(100), mass |-> Num(80), hair_color |-> NA,
       eye_color |-> "red",
       homeworld |-> NA, species |-> "Droid"],
      [height |-> Num(200), mass |-> Num(80), hair_color |-> "brown",
       eye_color |-> "blue",
       homeworld |-> "Tatooine", species |-> NA] }

CsvFiles == UNION { [1..n -> CsvRecords] : n \in 0..MaxRows }

\* pd.read_csv(url, index_col=0): the first column of the file, the running
\* line number, becomes the index; the other columns keep the file's order.
ReadCsv(file) ==
    Table(CsvColumns,
          [i \in 1..Len(file) |-> i - 1],
          [i \in 1..Len(file) |->
              [c \in Range(CsvColumns) |->
                  IF c = "name" THEN Names[i] ELSE file[i][c]]])

\* DataFrame.dropna(subset=[col]): the rows whose col is not missing.
DropNaNoop(T, col) == T

DropNa(T, col) ==
    Take(T, SelectSeq(Positions(T), LAMBDA i : T.data[i][col] # NA))

LoadCsv(file) == DropNa(ReadCsv(file), "species")

-----------------------------------------------------------------------------
(* Quickstart notebook: filter rows and select columns with df.loc *)

Predicates == {"brown_blue", "mass_gt_50"}

\* The boolean condition of a row.  A comparison with a missing value is False.
Holds(p, r) ==
    IF p = "brown_blue"
    THEN r["hair_color"] = "brown" /\ r["eye_color"] = "blue"
    ELSE ~IsNaN(r["mass"]) /\ RatLess(Num(50), r["mass"])

\* df[condition]: boolean-mask indexing.
FilterDropsFirst(T, p) ==
    LET keep == SelectSeq(Positions(T), LAMBDA i : Holds(p, T.data[i]))
    IN  Take(T, IF keep = <<>> THEN keep ELSE Tail(keep))

FilterReversed(T, p) ==
    LET keep == SelectSeq(Positions(T), LAMBDA i : Holds(p, T.data[i]))
    IN  Take(T, [k \in 1..Len(keep) |-> keep[Len(keep) + 1 - k]])

Filter(T, p) ==
    Take(T, SelectSeq(Positions(T), LAMBDA i : Holds(p, T.data[i])))

\* The column lists of a df.loc call; <<":">> is the slice ':' (all columns).
AllColumns == <<":">>

SelectLists ==
    { AllColumns, <<"name", "species">>, <<"species", "name">>,
      <<"height_m", "name">> }

HasColumns(T, cols) == Range(cols) \subseteq Range(T.columns)

\* df[[columns]]: the listed columns, in the order listed.
SelectTableOrder(T, cols) ==
    Table(SelectSeq(T.columns, LAMBDA c : c \in Range(cols)), T.index,
          [i \in 1..NRows(T) |-> [c \in Range(cols) |-> T.data[i][c]]])

Select(T, cols) ==
    Table(cols, T.index,
          [i \in 1..NRows(T) |-> [c \in Range(cols) |-> T.data[i][c]]])

\* df.loc[condition, columns]: KeyError if a listed column is absent.
Loc(T, p, cols) ==
    IF cols = AllColumns THEN Ok(Filter(T, p))
    ELSE IF HasColumns(T, cols) THEN Ok(Select(Filter(T, p), cols))
    ELSE Raise("KeyError")

-----------------------------------------------------------------------------
(* sort_values *)

\* Order of two values of a sort key (ascending, na_position="last"): a
\* missing value sorts after every number, and two missing values tie.
KeyLess(x, y) == ~IsNaN(x) /\ (IsNaN(y) \/ RatLess(x, y))

RECURSIVE RowLess(_, _, _)
RowLess(r1, r2, keys) ==   \* lexicographic over the key columns
    IF keys = <<>> THEN FALSE
    ELSE \/ KeyLess(r1[Head(keys)], r2[Head(keys)])
         \/ /\ ~KeyLess(r2[Head(keys)], r1[Head(keys)])
            /\ RowLess(r1, r2, Tail(keys))

Permutations1(n) ==
    { f \in [1..n -> 1..n] : \A i, j \in 1..n : f[i] = f[j] => i = j }

\* lexsort_indexer (np.lexsort, a stable sort): position j goes before
\* position i when its keys are smaller, or equal and j is earlier.
LexsortIndexerTiesReversed(T, keys) ==
    LET n == NRows(T)
        Before(j, i) ==
            \/ RowLess(T.data[j], T.data[i], keys)
            \/ ~RowLess(T.data[i], T.data[j], keys) /\ j > i
    IN  [k \in 1..n |->
            CHOOSE i \in 1..n :
                Cardinality({j \in 1..n : Before(j, i)}) = k - 1]

LexsortIndexer(T, keys) ==
    LET n == NRows(T)
        Before(j, i) ==
            \/ RowLess(T.data[j], T.data[i], keys)
            \/ ~RowLess(T.data[i], T.data[j], keys) /\ j < i
    IN  [k \in 1..n |->
            CHOOSE i \in 1..n :
                Cardinality({j \in 1..n : Before(j, i)}) = k - 1]

\* nargsort(kind="quicksort"): the non-missing values are argsorted by an
\* unstable sort, so equal values come out in any order; the positions of
\* the missing values are appended in their original order.
Nargsort(T, key) ==
    { f \in Permutations1(NRows(T)) :
        \A a, b \in 1..NRows(T) :
            a < b =>
              /\ ~KeyLess(T.data[f[b]][key], T.data[f[a]][key])
              /\ (IsNaN(T.data[f[a]][key]) /\ IsNaN(T.data[f[b]][key]))
                    => f[a] < f[b] }

\* DataFrame.sort_values(by): the indexers a call can produce.  More than one
\* key is a lexsort; a single key is nargsort with the default kind.
SortIndexers(T, by) ==
    IF Len(by) > 1 THEN {LexsortIndexer(T, by)} ELSE Nargsort(T, by[1])

-----------------------------------------------------------------------------
(* sample *)

\* What a call passes: n or frac (in halves: 1 is frac=0.5), replace, and
\* list-like weights or none.
SampleCalls ==
    [ by : {"n", "frac"}, amount : (0 - 1)..(MaxSample + 1),
      replace : BOOLEAN, weighted : {FALSE}, weights : {<<>>} ]
    \cup
    [ by : {"n"}, amount : 0..MaxSample, replace : BOOLEAN, weighted : {TRUE},
      weights : UNION { [1..n -> {0, 1}] : n \in 0..MaxRows } ]

\* Python's round(q / 2): half to even.
RoundHalves(q) ==
    IF q % 2 = 0 THEN q \div 2
    ELSE IF ((q - 1) \div 2) % 2 = 0 THEN (q - 1) \div 2
    ELSE (q + 1) \div 2

\* process_sampling_size, then round(frac * obj_len): the number of rows to
\* draw, or -1 for the ValueError of a negative n or frac, or of a frac
\* above 1 without replacement.
SamplingSizeNoUpsampling(call, objLen) ==
    IF call.by = "n"
    THEN IF call.amount < 0 \/ call.amount > objLen THEN 0 - 1 ELSE call.amount
    ELSE IF call.amount > 2 \/ call.amount < 0
         THEN 0 - 1 ELSE RoundHalves(call.amount * objLen)

SamplingSize(call, objLen) ==
    IF call.by = "n"
    THEN IF call.amount < 0 THEN 0 - 1 ELSE call.amount
    ELSE IF (call.amount > 2 /\ ~call.replace) \/ call.amount < 0
         THEN 0 - 1
         ELSE RoundHalves(call.amount * objLen)

\* The positions a draw can pick: all of them, or those of non-zero weight.
Support(call, objLen) ==
    IF call.weighted THEN {i \in 1..objLen : call.weights[i] # 0}
    ELSE 1..objLen

\* The ValueErrors of preprocess_weights, sample.sample and
\* RandomState.choice, in the order the library checks them.
SampleRejects(call, objLen) ==
    LET size == SamplingSize(call, objLen)
    IN  \/ size < 0
        \/ call.weighted /\ Len(call.weights) # objLen
        \/ call.weighted /\ Support(call, objLen) = {}
        \/ objLen = 0 /\ size > 0
        \/ ~call.replace /\ size > objLen
        \/ ~call.replace /\ call.weighted
              /\ Cardinality(Support(call, objLen)) < size

\* RandomState.choice(obj_len, size, replace, p): the draws it can return.
ChoiceWithReplacement(call, objLen) ==
    [1..SamplingSize(call, objLen) -> Support(call, objLen)]

Choice(call, objLen) ==
    LET size == SamplingSize(call, objLen)
        all == [1..size -> Support(call, objLen)]
    IN  IF call.replace THEN all
        ELSE { s \in all : \A i, j \in 1..size : s[i] = s[j] => i = j }


-----------------------------------------------------------------------------
(* Columns: Series, column assignment, head *)

Series(idx, vals) == [index |-> idx, values |-> vals]

NoSeries == Series(<<>>, <<>>)

\* df[c]
ColumnOf(T, c) == Series(T.index, [i \in 1..NRows(T) |-> T.data[i][c]])

\* series / k
SeriesDivInt(S, k) ==
    Series(S.index, [i \in DOMAIN S.values |-> RatDivInt(S.values[i], k)])

\* Series.reindex(idx): the value of each label of idx, NaN where S has none.
Reindex(S, idx) ==
    Series(idx,
           [i \in DOMAIN idx |->
               IF \E k \in DOMAIN S.index : S.index[k] = idx[i]
               THEN S.values[CHOOSE k \in DOMAIN S.index : S.index[k] = idx[i]]
               ELSE NaN])

\* df[name] = S and df.assign(name=S): the Series is aligned on the index; an
\* existing column is overwritten where it stands, a new one goes last.
SetColumnFirst(T, name, S) ==
    LET vals == Reindex(S, T.index).values
        cols == IF name \in Range(T.columns) THEN T.columns
                ELSE <<name>> \o T.columns
    IN  Table(cols, T.index,
              [i \in 1..NRows(T) |->
                  [c \in Range(cols) |->
                      IF c = name THEN vals[i] ELSE T.data[i][c]]])

SetColumn(T, name, S) ==
    LET vals == Reindex(S, T.index).values
        cols == IF name \in Range(T.columns) THEN T.columns
                ELSE Append(T.columns, name)
    IN  Table(cols, T.index,
              [i \in 1..NRows(T) |->
                  [c \in Range(cols) |->
                      IF c = name THEN vals[i] ELSE T.data[i][c]]])

AssignAppends(T, name, S) ==
    LET vals == Reindex(S, T.index).values
        cols == Append(T.columns, name)
    IN  Table(cols, T.index,
              [i \in 1..NRows(T) |->
                  [c \in Range(cols) |->
                      IF c = name THEN vals[i] ELSE T.data[i][c]]])

\* df.assign(name=S): a copy of the frame, and copy[name] = S on it.
Assign(T, name, S) == SetColumn(T, name, S)

Min(a, b) == IF a < b THEN a ELSE b

\* df.head(): the first five rows.
HeadRows == 5

Head5(T) == Take(T, [i \in 1..Min(HeadRows, NRows(T)) |-> i])

-----------------------------------------------------------------------------
(* rename *)

\* The dictionaries a df.rename(columns=...) call passes, old name to new
\* name: the notebook's, one whose new name is a column already, one whose
\* key is no column, and one that swaps two columns.
RenameMappers ==
    { "homeworld" :> "home_world",
      "homeworld" :> "species",
      "home" :> "world",
      ("height" :> "mass") @@ ("mass" :> "height") }

\* The label a column gets: the dictionary's entry, or its own name.
Relabel(m, c) == IF c \in DOMAIN m THEN m[c] ELSE c

\* DataFrame.rename(columns=m) returns a copy whose labels are all replaced at
\* once; the data are not touched, no label is checked against another, and
\* labels that come out equal stay side by side.  A row is read by label: of
\* two columns under one label it shows the first.
RECURSIVE RelabelEach(_, _, _)
RelabelEach(cols, m, keys) ==   \* one entry of the dictionary after another
    IF keys = {} THEN cols
    ELSE LET k == CHOOSE x \in keys : TRUE
         IN  RelabelEach([i \in DOMAIN cols |->
                             IF cols[i] = k THEN m[k] ELSE cols[i]],
                         m, keys \ {k})

RenameOneAtATime(T, m) ==
    LET cols == RelabelEach(T.columns, m, DOMAIN m)
        Old(c) == T.columns[CHOOSE k \in DOMAIN cols :
                      cols[k] = c /\ \A j \in 1..(k - 1) : cols[j] # c]
    IN  Table(cols, T.index,
              [i \in 1..NRows(T) |-> [c \in Range(cols) |-> T.data[i][Old(c)]]])

Rename(T, m) ==
    LET cols == [k \in DOMAIN T.columns |-> Relabel(m, T.columns[k])]
        Old(c) == T.columns[CHOOSE k \in DOMAIN cols :
                      cols[k] = c /\ \A j \in 1..(k - 1) : cols[j] # c]
    IN  Table(cols, T.index,
              [i \in 1..NRows(T) |-> [c \in Range(cols) |-> T.data[i][Old(c)]]])

-----------------------------------------------------------------------------
(* groupby *)

\* The strings a group key can hold, in sorted order.
SortedKeys == <<"Droid", "Human", "NaN">>

\* The groups of df.groupby(key): sort=True, dropna=True, so the distinct
\* non-missing key values in sorted order.
GroupKeys(T, key) ==
    SelectSeq(SortedKeys,
              LAMBDA g : g # NA /\ \E i \in 1..NRows(T) : T.data[i][key] = g)

GroupPositions(T, key, g) ==
    SelectSeq(Positions(T), LAMBDA i : T.data[i][key] = g)

\* df.groupby(key)[cols].mean(): one row per group, labelled by its key.
GroupByMean(T, key, cols) ==
    LET keys == GroupKeys(T, key)
    IN  Table(cols, keys,
              [g \in 1..Len(keys) |->
                  LET pos == GroupPositions(T, key, keys[g])
                  IN  [c \in Range(cols) |->
                          Mean([k \in 1..Len(pos) |-> T.data[pos[k]][c]])]])

\* lambda x: x - x.mean()
Demean(vals) ==
    LET m == Mean(vals) IN [i \in DOMAIN vals |-> RatSub(vals[i], m)]

\* The function applied group by group, the results concatenated in group
\* order.
RECURSIVE ConcatGroups(_, _, _, _)
ConcatGroups(T, key, col, keys) ==
    IF keys = <<>> THEN NoSeries
    ELSE LET pos == GroupPositions(T, key, Head(keys))
             part == Series([k \in 1..Len(pos) |-> T.index[pos[k]]],
                            Demean([k \in 1..Len(pos) |-> T.data[pos[k]][col]]))
             rest == ConcatGroups(T, key, col, Tail(keys))
         IN  Series(part.index \o rest.index, part.values \o rest.values)

\* df.groupby(key)[col].transform(f): the concatenated results put back in
\* the order of the original index.
GroupTransformGroupOrder(T, key, col) ==
    ConcatGroups(T, key, col, GroupKeys(T, key))

GroupTransformWholeColumn(T, key, col) ==
    Series(T.index, Demean(ColumnOf(T, col).values))

GroupTransform(T, key, col) ==
    Reindex(ConcatGroups(T, key, col, GroupKeys(T, key)), T.index)

-----------------------------------------------------------------------------
(* Getting-data notebook: the World Bank download *)

\* The names the API returns for country=["US", "CHN", "IND", "Z4", "Z7"],
\* as words.
Countries ==
    << <<"United", "States">>, <<"China">>, <<"India">>,
       <<"East", "Asia", "&", "Pacific">>,
       <<"Europe", "&", "Central", "Asia">> >>

Co2Values == {NaN} \cup {Num(v) : v \in 1..MaxCo2}

WbValues == [1..Len(Countries) -> Co2Values]

RECURSIVE JoinWords(_)
JoinWords(words) ==
    IF Len(words) = 1 THEN words[1]
    ELSE words[1] \o " " \o JoinWords(Tail(words))

WrapWidth == 10

\* textwrap.fill(x, 10): words go on the current line while it stays within
\* the width, lines are joined by a newline.
RECURSIVE FillFrom(_, _)
FillFrom(words, line) ==
    IF words = <<>> THEN line
    ELSE IF Len(line) + 1 + Len(Head(words)) <= WrapWidth
         THEN FillFrom(Tail(words), line \o " " \o Head(words))
         ELSE line \o "\n" \o FillFrom(Tail(words), Head(words))

Fill(words) == FillFrom(Tail(words), Head(words))

Indicator == "EN.ATM.CO2E.PC"

WbColumns == <<"country", "year", Indicator>>

\* wb.download(...).reset_index(): one row per country for the year 2017.
WbFrame(values) ==
    Table(WbColumns,
          [i \in 1..Len(values) |-> i - 1],
          [i \in 1..Len(values) |->
              [c \in Range(WbColumns) |->
                  IF c = "country" THEN JoinWords(Countries[i])
                  ELSE IF c = "year" THEN "2017"
                  ELSE values[i]]])

\* df["country"].apply(lambda x: textwrap.fill(x, 10))
WrappedCountries(T) ==
    Series(T.index, [i \in 1..NRows(T) |-> Fill(Countries[i])])

-----------------------------------------------------------------------------
(* Getting-data notebook: requests.get *)

\* What a server (or the network) answers to one call: status 0 stands for no
\* answer at all (host unreachable), 301 for a redirect to Location.
NoBody == [json |-> FALSE, keys |-> {}, title |-> "", months |-> <<>>]

Answer(status, body) == [status |-> status, body |-> body]

FinalStatuses == {200, 404}

\* The answers to the calls of one fetch: up to MaxHops redirects, then a
\* final answer with one of the bodies, or no answer; none is the empty body.
Routes(bodies, none) ==
    { [k \in 1..hops |-> Answer(301, none)] \o <<final>> :
        hops \in 0..MaxHops,
        final \in {Answer(0, none)} \cup
                  {Answer(st, b) : st \in FinalStatuses, b \in bodies} }

\* Where a redirect sends the call.
Location(url) == url \o "/"

RECURSIVE UrlAt(_, _)
UrlAt(url, k) == IF k = 1 THEN url ELSE Location(UrlAt(url, k - 1))

\* requests: a session follows at most 30 redirects.
RedirectLimit == 30

\* requests.get(url): one call to the url and one to each redirect target in
\* turn (allow_redirects=True), no retry (max_retries=0).  It raises when no
\* answer comes or the redirects exceed the limit; an answer of any other
\* status, 404 included, is returned as the Response.
GetRetriesOnce(url, route) ==
    LET n == Min(Len(route), RedirectLimit + 1)
        calls == [k \in 1..n |->
                    IoCall("GET", UrlAt(url, k),
                           IF route[k].status = 0 THEN "ConnectionError"
                           ELSE IF route[k].status = 301 THEN "redirect"
                           ELSE "ok")]
    IN  [ io |-> IF route[n].status = 0 THEN Append(calls, calls[n]) ELSE calls,
          end |-> IF route[n].status = 0 THEN "ConnectionError"
                  ELSE IF route[n].status = 301 THEN "TooManyRedirects"
                  ELSE "ok",
          response |-> route[n] ]

Get(url, route) ==
    LET n == Min(Len(route), RedirectLimit + 1)
        calls == [k \in 1..n |->
                    IoCall("GET", UrlAt(url, k),
                           IF route[k].status = 0 THEN "ConnectionError"
                           ELSE IF route[k].status = 301 THEN "redirect"
                           ELSE "ok")]
    IN  [ io |-> calls,
          end |-> IF route[n].status = 0 THEN "ConnectionError"
                  ELSE IF route[n].status = 301 THEN "TooManyRedirects"
                  ELSE "ok",
          response |-> route[n] ]

\* urllib's urlopen(url), which pandas reads a url with: as requests.get, but
\* an answer whose status is not 2xx raises HTTPError.
UrlOpen(url, route) ==
    LET got == Get(url, route)
    IN  [ io |-> got.io,
          end |-> IF got.end = "ConnectionError" THEN "URLError"
                  ELSE IF got.end = "TooManyRedirects" THEN "HTTPError"
                  ELSE IF got.response.status # 200 THEN "HTTPError"
                  ELSE "ok",
          response |-> got.response ]

-----------------------------------------------------------------------------
(* Getting-data notebook: the ONS time series.  A text is a sequence of    *)
(* characters.                                                             *)

OnsUrl == "https://api.ons.gov.uk/timeseries/JP9Z/dataset/UNEM/data"

Digits == <<"0", "1", "2", "3", "4", "5", "6", "7", "8", "9">>

DigitOf(c) == (CHOOSE k \in 1..10 : Digits[k] = c) - 1

AllDigits(t) == \A i \in DOMAIN t : t[i] \in Range(Digits)

RECURSIVE NatOf(_)
NatOf(t) ==
    IF t = <<>> THEN 0
    ELSE NatOf(SubSeq(t, 1, Len(t) - 1)) * 10 + DigitOf(t[Len(t)])

RECURSIVE Pow10(_)
Pow10(k) == IF k = 0 THEN 1 ELSE 10 * Pow10(k - 1)

\* The texts pd.to_numeric reads as a number, among those the API sends:
\* digits, with at most one decimal point.
DotsOf(t) == {i \in DOMAIN t : t[i] = "."}

IsNumberText(t) ==
    LET rest == SelectSeq(t, LAMBDA c : c # ".")
    IN  rest # <<>> /\ AllDigits(rest) /\ Cardinality(DotsOf(t)) <= 1

NumberOf(t) ==
    LET rest == SelectSeq(t, LAMBDA c : c # ".")
        frac == IF DotsOf(t) = {} THEN 0
                ELSE Len(t) - (CHOOSE i \in DotsOf(t) : TRUE)
    IN  Norm(NatOf(rest), Pow10(frac))

MonthNames ==
    <<"JAN", "FEB", "MAR", "APR", "MAY", "JUN", "JUL", "AUG", "SEP", "OCT",
      "NOV", "DEC">>

\* The texts pd.to_datetime reads as a date, among those the API sends: a
\* year, a space and a month's abbreviation; the day is the first.
IsDateText(t) ==
    /\ Len(t) = 8
    /\ AllDigits(SubSeq(t, 1, 4))
    /\ t[5] = " "
    /\ t[6] \o t[7] \o t[8] \in Range(MonthNames)

DateOf(t) ==
    << NatOf(SubSeq(t, 1, 4)),
       CHOOSE m \in 1..12 : MonthNames[m] = t[6] \o t[7] \o t[8],
       1 >>

\* pd.to_datetime(series) and pd.to_numeric(series), errors="raise": every
\* value is converted, or the call raises ValueError for the first value it
\* cannot read.  The message quotes the value; to_numeric's also gives its
\* position (from 0), to_datetime's does so from pandas 2.0 on.
Convert(S, Readable(_), ValueOf(_), places) ==
    LET bad == {i \in DOMAIN S.values : ~Readable(S.values[i])}
        first == CHOOSE i \in bad : \A j \in bad : i <= j
    IN  IF bad = {}
        THEN [ end |-> Ok(NoTable),
               series |-> Series(S.index,
                                 [i \in DOMAIN S.values |-> ValueOf(S.values[i])]) ]
        ELSE [ end |-> RaiseAt("ValueError",
                              IF places THEN <<S.values[first], first - 1>>
                              ELSE <<S.values[first]>>),
               series |-> NoSeries ]

\* errors="coerce" in place of "raise"
ToNumericCoerce(S) ==
    [ end |-> Ok(NoTable),
      series |-> Series(S.index,
                        [i \in DOMAIN S.values |->
                            IF IsNumberText(S.values[i])
                            THEN NumberOf(S.values[i]) ELSE NaN]) ]

ToNumeric(S) == Convert(S, IsNumberText, NumberOf, TRUE)

ToDatetime(S, places) == Convert(S, IsDateText, DateOf, places)

\* DataFrame.set_index(c): the column becomes the index and leaves the
\* columns; no row is dropped and no label is checked against another.
SetIndexUnique(T, c) ==
    LET keep == SelectSeq(Positions(T),
                          LAMBDA i : \A j \in 1..(i - 1) :
                                        T.data[j][c] # T.data[i][c])
        cols == SelectSeq(T.columns, LAMBDA x : x # c)
    IN  Table(cols,
              [k \in 1..Len(keep) |-> T.data[keep[k]][c]],
              [k \in 1..Len(keep) |-> [x \in Range(cols) |-> T.data[keep[k]][x]]])

SetIndex(T, c) ==
    LET cols == SelectSeq(T.columns, LAMBDA x : x # c)
    IN  Table(cols,
              [i \in 1..NRows(T) |-> T.data[i][c]],
              [i \in 1..NRows(T) |-> [x \in Range(cols) |-> T.data[i][x]]])

\* The bodies the API's server can send: the data (a description with the
\* title, and the "months" list), the data without the list, an error
\* message as JSON, and a page that is not JSON.
DateTexts ==
    { <<"2", "0", "0", "1", " ", "M", "A", "Y">>,
      <<"2", "0", "0", "1", " ", "J", "U", "N">>,
      <<"2", "0", "0", "1", " ", "X", "X", "X">> }

ValueTexts == { <<"5", "3", "2">>, <<"5", "3", ".", "2">>, <<"x">> }

MonthRecords ==
    { [date |-> d, value |-> v, label |-> d] : d \in DateTexts, v \in ValueTexts }

MonthColumns == <<"date", "value", "label">>

JsonBodies ==
    { NoBody,
      [json |-> TRUE, keys |-> {"message"}, title |-> "", months |-> <<>>],
      [json |-> TRUE, keys |-> {"description"}, title |-> "Vacancies",
       months |-> <<>>] }
    \cup
    { [json |-> TRUE, keys |-> {"description", "months"}, title |-> "Vacancies",
       months |-> ms] :
        ms \in UNION { [1..n -> MonthRecords] : n \in 0..MaxMonths } }

\* pd.DataFrame(pd.json_normalize(list)): one row per entry in list order,
\* one column per key in the order the keys first appear; no entry, no column.
JsonNormalize(list) ==
    IF list = <<>> THEN NoTable
    ELSE Table(MonthColumns,
               [i \in 1..Len(list) |-> i - 1],
               [i \in 1..Len(list) |-> [c \in Range(MonthColumns) |-> list[i][c]]])

\* Series.max(): the largest of the values that are not missing.
MaxOf(vals) ==
    LET nums == {vals[i] : i \in {j \in DOMAIN vals : ~IsNaN(vals[j])}}
    IN  IF nums = {} THEN NaN
        ELSE CHOOSE v \in nums : \A w \in nums : ~RatLess(v, w)

RatMul(x, y) ==
    IF IsNaN(x) \/ IsNaN(y) THEN NaN ELSE Norm(x[1] * y[1], x[2] * y[2])

\* series.plot(title=title, ylim=(0, top), lw=3.0): the figure the cell shows.
Plot(S, title, top) ==
    [title |-> title, x |-> S.index, y |-> S.values, ylim |-> <<Num(0), top>>]

Stages == <<"fetch", "parse", "normalize", "transform", "export">>

OnsCalls == <<"requests.get", "json", "assign", "max", "plot">>

\* The cell's statements in order, each stage's end, up to the first that
\* raises:
\*   json_data = requests.get(url).json()
\*   title = json_data["description"]["title"]
\*   df = (pd.DataFrame(pd.json_normalize(json_data["months"]))
\*         .assign(date=lambda x: pd.to_datetime(x["date"]),
\*                 value=lambda x: pd.to_numeric(x["value"]))
\*         .set_index("date"))
\*   df["value"].plot(title=title, ylim=(0, df["value"].max() * 1.2), lw=3.0);
OnsChain(route, places) ==
    LET got == Get(OnsUrl, route)
        body == got.response.body
        frame == JsonNormalize(body.months)
        dates == ToDatetime(ColumnOf(frame, "date"), places)
        values == ToNumeric(ColumnOf(frame, "value"))
        table == SetIndex(SetColumn(SetColumn(frame, "date", dates.series),
                                    "value", values.series), "date")
        fetch == IF got.end = "ok" THEN Ok(NoTable) ELSE Raise(got.end)
        parse == IF ~body.json THEN Raise("JSONDecodeError")
                 ELSE IF "description" \notin body.keys
                      THEN RaiseAt("KeyError", <<"description">>)
                 ELSE IF "months" \notin body.keys
                      THEN RaiseAt("KeyError", <<"months">>)
                 ELSE Ok(frame)
        normalize == IF "date" \notin Range(frame.columns)
                     THEN RaiseAt("KeyError", <<"date">>)
                     ELSE IF dates.end.status = "error" THEN dates.end
                     ELSE IF values.end.status = "error" THEN values.end
                     ELSE Ok(table)
        top == RatMul(MaxOf(ColumnOf(table, "value").values), <<6, 5>>)
        figure == Plot(ColumnOf(table, "value"), body.title, top)
        ends == <<fetch, parse, normalize, Ok(NoTable), Ok(figure)>>
        bad == {k \in 1..Len(Stages) : ends[k].status = "error"}
        n == IF bad = {} THEN Len(Stages)
             ELSE CHOOSE k \in bad : \A j \in bad : k <= j
    IN  [ io |-> got.io,
          steps |-> [k \in 1..n |-> Step(Stages[k], OnsCalls[k], End(ends[k]))],
          out |-> ends[n],
          json_data |-> IF got.end = "ok" /\ body.json THEN body ELSE NoBody,
          title |-> IF got.end = "ok" /\ body.json
                       /\ "description" \in body.keys
                    THEN body.title ELSE "",
          frame |-> IF parse.status = "ok" /\ n > 2 THEN frame ELSE NoTable,
          bound |-> normalize.status = "ok" /\ n > 3,
          table |-> table ]

\* The cell of the section "Obtaining data using APIs".
OnsCell ==
    /\ nb = "getdata:api"
    /\ last[1] = "start"
    /\ \E route \in Routes(JsonBodies, NoBody), places \in BOOLEAN :
          LET run == OnsChain(route, places) IN
          /\ io' = run.io
          /\ steps' = run.steps
          /\ out' = run.out
          /\ ns' = [ns EXCEPT !.json_data = run.json_data, !.title = run.title]
          /\ df' = IF run.bound THEN run.table ELSE df
          /\ pre' = run.frame
          /\ arg' = run.frame
          /\ reads' = IF run.steps[1].end = "ok" THEN <<"json">> ELSE <<>>
          /\ last' = <<"ons", route>>
    /\ rhs' = NoSeries
    /\ UNCHANGED <<nb, csv, wb, runs, shell, disk>>

-----------------------------------------------------------------------------
(* Getting-data notebook: webscraping tables with pd.read_html.  A page is *)
(* its <table> elements in document order; a table has header cells and   *)
(* body rows of cells; a cell is its text nodes in order.                  *)

WorldCupUrl == "https://simple.wikipedia.org/wiki/FIFA_World_Cup"

TableElements ==
    { [head |-> << <<"Host">> >>, body |-> << << <<"Sweden">> >>, << <<"Brazil">> >> >>],
      [head |-> << <<"Host">> >>, body |-> << << <<"Brazil">> >> >>],
      [head |-> << <<"Sweden 1958">> >>, body |-> <<>>],
      [head |-> << <<"Host">> >>, body |-> << << <<"Swe", "den">> >> >>],
      [head |-> <<>>, body |-> <<>>] }

Pages == UNION { [1..n -> TableElements] : n \in 0..MaxTables }

\* match=: the notebook's "Sweden", and the default ".+" (no filter).
Matchers == {"Sweden", ".+"}

\* re.search(pattern, text) for the two patterns: ".+" finds any text that is
\* not empty; "Sweden" finds the text it is a part of.
Affixes == {"", " 1958"}

Search(pattern, text) ==
    IF pattern = ".+" THEN text # ""
    ELSE \E a, b \in Affixes : a \o pattern \o b = text

\* The text nodes of a table, and the tables read_html keeps: those with a
\* text node the pattern is found in.
TextNodes(t) ==
    UNION { Range(cell) : cell \in Range(t.head) \cup UNION {Range(row) : row \in Range(t.body)} }

Matches(t, pattern) == \E text \in TextNodes(t) : Search(pattern, text)

\* The text of a cell: its text nodes joined.
RECURSIVE CellText(_)
CellText(cell) == IF cell = <<>> THEN "" ELSE Head(cell) \o CellText(Tail(cell))

\* The DataFrame of a table: the header cells name the columns, every body
\* row is a row.
ParseTable(t) ==
    LET cols == [k \in DOMAIN t.head |-> CellText(t.head[k])]
    IN  Table(cols,
              [i \in DOMAIN t.body |-> i - 1],
              [i \in DOMAIN t.body |->
                  [c \in Range(cols) |->
                      CellText(t.body[i][CHOOSE k \in DOMAIN cols : cols[k] = c])]])

\* pd.read_html(page, match=pattern): the DataFrames of the tables kept, in
\* document order; ValueError ("No tables found") when none is kept.
ReadHtmlRenderedText(page, pattern) ==
    LET kept == SelectSeq(page, LAMBDA t :
                    \E cell \in Range(t.head) \cup UNION {Range(row) : row \in Range(t.body)} :
                        Search(pattern, CellText(cell)))
    IN  IF kept = <<>> THEN Raise("ValueError")
        ELSE Ok([k \in DOMAIN kept |-> ParseTable(kept[k])])

ReadHtml(page, pattern) ==
    LET kept == SelectSeq(page, LAMBDA t : Matches(t, pattern))
    IN  IF kept = <<>> THEN Raise("ValueError")
        ELSE Ok([k \in DOMAIN kept |-> ParseTable(kept[k])])

\* df_list = pd.read_html(url, match="Sweden")
\* df = df_list[0] ; df.head()
ReadHtmlCell ==
    /\ nb = "getdata:tables"
    /\ last[1] = "start"
    /\ \E route \in Routes(Pages, <<>>), pattern \in Matchers :
          LET got == UrlOpen(WorldCupUrl, route)
              read == IF got.end = "ok" THEN ReadHtml(got.response.body, pattern)
                      ELSE Raise(got.end)
          IN  /\ io' = got.io
              /\ steps' = IF got.end = "ok"
                           THEN << Step("fetch", "read_html", "ok"),
                                   Step("parse", "read_html", End(read)) >>
                           ELSE << Step("fetch", "read_html", got.end) >>
              /\ ns' = IF read.status = "ok"
                        THEN [ns EXCEPT !.df_list = read.value] ELSE ns
              /\ df' = IF read.status = "ok" THEN read.value[1] ELSE df
              /\ out' = IF read.status = "ok" THEN Ok(Head5(read.value[1])) ELSE read
              /\ reads' = IF got.end = "ok" THEN <<"read_html">> ELSE <<>>
              /\ last' = <<"read_html", pattern, route>>
    /\ rhs' = NoSeries
    /\ pre' = NoTable
    /\ arg' = NoTable
    /\ UNCHANGED <<nb, csv, wb, runs, shell, disk>>

-----------------------------------------------------------------------------
(* The names a kernel binds besides df, before any cell has run.           *)

NoNames ==
    [ json_data |-> NoBody, title |-> "", df_list |-> <<>>,
      page |-> [status |-> 0, text |-> <<>>], soup |-> <<>>,
      all_paras |-> <<>>, projects |-> <<>>, table |-> NoTable,
      pdf |-> <<>>, info_on_pages |-> <<>> ]

-----------------------------------------------------------------------------
(* Cells of the quickstart notebook, run from top to bottom.  A cell runs  *)
(* when the cell before it has run without raising.                        *)

After(cell) == last[1] = cell /\ out.status # "error"

\* The stage a cell of the quickstart notebook belongs to.
StageOf(cell) == IF cell = "rename" THEN "normalize" ELSE "transform"

\* A cell that evaluates an expression over df and binds nothing.
Pure(cell, value) ==
    /\ out' = value
    /\ last' = cell
    /\ rhs' = NoSeries
    /\ pre' = df
    /\ arg' = df
    /\ io' = <<>>
    /\ steps' = <<Step(StageOf(cell[1]), cell[1], End(value))>>
    /\ UNCHANGED <<nb, csv, wb, runs, shell, disk, reads, df, ns>>

-----------------------------------------------------------------------------
(* Scraping a web page: requests.get, BeautifulSoup and find_all.  The     *)
(* text of a page is written token by token, as html.parser reads it:      *)
(* start tags, end tags and runs of characters.                            *)

ResearchUrl == "http://aeturrell.com/research"

StartTag(tag, class) ==
    [kind |-> "start", tag |-> tag, class |-> class, data |-> <<>>]
EndTag(tag) == [kind |-> "end", tag |-> tag, class |-> <<>>, data |-> <<>>]
CharData(chars) == [kind |-> "data", tag |-> "", class |-> <<>>, data |-> chars]

ProjectClass == <<"project-content", "listing-pub-info">>

\* Pieces of markup a page is written from: a paragraph, a project entry
\* holding a paragraph, an entry whose classes are written the other way
\* round, a paragraph that is never closed, an end tag that closes nothing,
\* and a project entry of text alone.
Markup ==
    { << StartTag("p", <<>>), CharData(<<"a">>), EndTag("p") >>,
      << StartTag("div", ProjectClass), StartTag("p", <<>>), CharData(<<"b">>),
         EndTag("p"), CharData(<<" ", "X", " ">>), EndTag("div") >>,
      << StartTag("div", <<"listing-pub-info", "project-content">>),
         CharData(<<"a">>), EndTag("div") >>,
      << StartTag("p", <<>>), CharData(<<"c">>) >>,
      << EndTag("div") >>,
      << StartTag("div", ProjectClass), CharData(<<" ", "Y">>), EndTag("div") >> }

RECURSIVE PagesOf(_)
PagesOf(n) ==
    IF n = 0 THEN {<<>>}
    ELSE LET shorter == PagesOf(n - 1)
         IN  shorter \cup {a \o b : a \in shorter, b \in Markup}

HtmlPages == PagesOf(MaxParts)

\* BeautifulSoup(markup, "html.parser"): the nodes of the tree in document
\* order, each with its parent (0: the document).  A start tag opens a node
\* inside the innermost open one; an end tag closes the innermost open node
\* of its name and all that were opened inside it, and is ignored when no
\* open node has its name; the end of the text closes what is still open.
RECURSIVE TreeBuilder(_, _, _)
TreeBuilder(tokens, nodes, open) ==
    IF tokens = <<>> THEN nodes
    ELSE LET t == Head(tokens)
             node == [ kind |-> IF t.kind = "start" THEN "tag" ELSE "string",
                       name |-> t.tag, class |-> t.class, string |-> t.data,
                       parent |-> IF open = <<>> THEN 0 ELSE open[Len(open)] ]
             same == {k \in DOMAIN open : nodes[open[k]].name = t.tag}
             innermost == CHOOSE k \in same : \A j \in same : j <= k
         IN  CASE t.kind = "start" ->
                    TreeBuilder(Tail(tokens), Append(nodes, node),
                                Append(open, Len(nodes) + 1))
               [] t.kind = "data" ->
                    TreeBuilder(Tail(tokens), Append(nodes, node), open)
               [] OTHER ->
                    TreeBuilder(Tail(tokens), nodes,
                                IF same = {} THEN open
                                ELSE SubSeq(open, 1, innermost - 1))

BeautifulSoup(markup) == TreeBuilder(markup, <<>>, <<>>)

\* Node j lies inside node i.
RECURSIVE Under(_, _, _)
Under(nodes, j, i) ==
    /\ nodes[j].parent # 0
    /\ (nodes[j].parent = i \/ Under(nodes, nodes[j].parent, i))

\* tag.text: the strings inside the tag, joined in document order.
RECURSIVE TextFrom(_, _, _)
TextFrom(nodes, i, j) ==
    IF j > Len(nodes) THEN <<>>
    ELSE (IF nodes[j].kind = "string" /\ Under(nodes, j, i)
          THEN nodes[j].string ELSE <<>>) \o TextFrom(nodes, i, j + 1)

Text(nodes, i) == TextFrom(nodes, i, i + 1)

\* str.strip(): without the white space at either end.
Strip(chars) ==
    LET inked == {k \in DOMAIN chars : chars[k] # " "}
    IN  IF inked = {} THEN <<>>
        ELSE SubSeq(chars, CHOOSE k \in inked : \A j \in inked : k <= j,
                           CHOOSE k \in inked : \A j \in inked : j <= k)

\* soup.find_all(name, class_=class): the tags of that name anywhere in the
\* tree, in document order, as a list; class "" stands for no class_
\* argument.  A class_ string matches a tag one of whose classes it is, or
\* whose class attribute as written it is.
FindAllChildren(nodes, name, class) ==
    LET hit(j) == /\ nodes[j].kind = "tag"
                  /\ nodes[j].name = name
                  /\ nodes[j].parent = 0
                  /\ \/ class = ""
                     \/ class \in Range(nodes[j].class)
                     \/ /\ nodes[j].class # <<>>
                        /\ JoinWords(nodes[j].class) = class
    IN  SelectSeq([j \in DOMAIN nodes |-> j], hit)

FindAll(nodes, name, class) ==
    LET hit(j) == /\ nodes[j].kind = "tag"
                  /\ nodes[j].name = name
                  /\ \/ class = ""
                     \/ class \in Range(nodes[j].class)
                     \/ /\ nodes[j].class # <<>>
                        /\ JoinWords(nodes[j].class) = class
    IN  SelectSeq([j \in DOMAIN nodes |-> j], hit)

\* A cell of the scraping section: what it binds, shows and calls.
Scrape(cell, names, shown, calls, stage, op) ==
    /\ nb = "getdata:scrape"
    /\ ns' = names
    /\ reads' = IF stage = "fetch"
                THEN (IF shown.status = "ok" THEN <<"text[:300]">> ELSE <<>>)
                ELSE IF stage = "parse" THEN Append(reads, op)
                ELSE reads
    /\ out' = shown
    /\ last' = cell
    /\ io' = calls
    /\ steps' = <<Step(stage, op, End(shown))>>
    /\ rhs' = NoSeries
    /\ pre' = NoTable
    /\ arg' = NoTable
    /\ UNCHANGED <<nb, csv, wb, runs, shell, disk, df>>

\* page = requests.get(url) ; page.text[:300]
\* (the pages here are shorter than 300 characters)
PageCell ==
    /\ nb = "getdata:scrape"
    /\ last[1] = "start"
    /\ \E route \in Routes(HtmlPages, <<>>) :
          LET got == Get(ResearchUrl, route)
          IN  IF got.end = "ok"
              THEN Scrape(<<"page", route>>,
                          [ns EXCEPT !.page = [status |-> got.response.status,
                                               text |-> got.response.body]],
                          [Nothing EXCEPT !.status = "ok",
                                          !.value = got.response.body],
                          got.io, "fetch", "requests.get")
              ELSE Scrape(<<"page", route>>, ns, Raise(got.end),
                          got.io, "fetch", "requests.get")

\* soup = BeautifulSoup(page.text, "html.parser")
\* print(soup.prettify()[60000:60500])
SoupDiscardingPage(names) ==
    [names EXCEPT !.soup = BeautifulSoup(names.page.text),
                  !.page = NoNames.page]

\* soup = BeautifulSoup(page.text, "html.parser"): page stays bound
Soup(names) ==
    [names EXCEPT !.soup = BeautifulSoup(names.page.text)]

SoupCell ==
    /\ After("page")
    /\ Scrape(<<"soup">>, Soup(ns),
              [Nothing EXCEPT !.status = "ok", !.value = <<>>],
              <<>>, "parse", "BeautifulSoup")

\* all_paras = soup.find_all("p") ; all_paras[1]
FindAllCell ==
    /\ After("soup")
    /\ LET all_paras == FindAll(ns.soup, "p", "")
       IN  Scrape(<<"find_all">>, [ns EXCEPT !.all_paras = all_paras],
                  IF Len(all_paras) < 2 THEN Raise("IndexError")
                  ELSE [Nothing EXCEPT !.status = "ok", !.value = all_paras[2]],
                  <<>>, "transform", "find_all")

\* all_paras[1].text
TextCell ==
    /\ After("find_all")
    /\ Scrape(<<"text">>, ns,
              [Nothing EXCEPT !.status = "ok",
                              !.value = Text(ns.soup, ns.all_paras[2])],
              <<>>, "transform", "text")

\* projects = soup.find_all("div", class_="project-content listing-pub-info")
\* projects = [x.text.strip() for x in projects] ; projects[:4]
ProjectsCell ==
    /\ After("text")
    /\ LET found == FindAll(ns.soup, "div", "project-content listing-pub-info")
           projects == [k \in DOMAIN found |-> Strip(Text(ns.soup, found[k]))]
       IN  Scrape(<<"projects">>, [ns EXCEPT !.projects = projects],
                  [Nothing EXCEPT !.status = "ok",
                        !.value = SubSeq(projects, 1, Min(4, Len(projects)))],
                  <<>>, "transform", "find_all")

-----------------------------------------------------------------------------
(* Reading a csv file from the internet: pd.read_csv(url, nrows=10).  The  *)
(* text of the file is a sequence of characters.                           *)

StormsUrl ==
    "https://vincentarelbundock.github.io/Rdatasets/csv/dplyr/storms.csv"

NRowsOption == 10

\* Header lines: two names; an empty first field, as the files of Rdatasets
\* have over their row numbers; the same name twice.
CsvHeaders == { <<"a", ",", "b">>, <<",", "b">>, <<"a", ",", "a">> }

\* The files the address can serve: a header line and n data lines, line i
\* being "i,2", or "i,x" on the line `word` (0: on none); possibly an empty
\* line after the first data line; the last line with or without its
\* newline.
Storms ==
    [ header : CsvHeaders, n : 0..MaxLines, word : {0, 2, NRowsOption + 1},
      blank : BOOLEAN, newline : BOOLEAN ]

RECURSIVE DigitsOf(_)
DigitsOf(n) ==
    IF n < 10 THEN <<Digits[n + 1]>>
    ELSE Append(DigitsOf(n \div 10), Digits[(n % 10) + 1])

RECURSIVE DataLines(_, _)
DataLines(file, i) ==
    IF i > file.n THEN <<>>
    ELSE DigitsOf(i) \o <<",", IF i = file.word THEN "x" ELSE "2">> \o
         (IF i < file.n \/ file.newline THEN <<"\n">> ELSE <<>>) \o
         (IF i = 1 /\ file.blank THEN <<"\n">> ELSE <<>>) \o
         DataLines(file, i + 1)

CsvText(file) ==
    file.header \o (IF file.n > 0 \/ file.newline THEN <<"\n">> ELSE <<>>) \o
    DataLines(file, 1)

\* The pieces of a text between the occurrences of a separator.
RECURSIVE SplitOn(_, _)
SplitOn(chars, sep) ==
    IF \A k \in DOMAIN chars : chars[k] # sep THEN <<chars>>
    ELSE LET at == CHOOSE k \in DOMAIN chars :
                      chars[k] = sep /\ \A j \in 1..(k - 1) : chars[j] # sep
         IN  <<SubSeq(chars, 1, at - 1)>> \o
             SplitOn(SubSeq(chars, at + 1, Len(chars)), sep)

RECURSIVE JoinChars(_)
JoinChars(chars) ==
    IF chars = <<>> THEN "" ELSE chars[1] \o JoinChars(Tail(chars))

\* The column names read_csv gives the header fields: an empty field is
\* "Unnamed: k", k its position from 0; a name that occurred before gets
\* the number of its earlier occurrences as a suffix.
ColumnNames(fields) ==
    [ k \in DOMAIN fields |->
        LET before == Cardinality({j \in 1..(k - 1) : fields[j] = fields[k]})
        IN  IF fields[k] = <<>>
            THEN "Unnamed: " \o JoinChars(DigitsOf(k - 1))
            ELSE IF before > 0
            THEN JoinChars(fields[k]) \o "." \o JoinChars(DigitsOf(before))
            ELSE JoinChars(fields[k]) ]

\* pd.read_csv(text, nrows=nrows): the first line is the header, empty lines
\* are skipped, at most nrows data lines are read; a column whose fields all
\* read as numbers holds numbers, another holds the texts; the rows are
\* numbered from 0.  A text without any line has no columns to parse.
ReadCsvAllRows(text, nrows) ==
    LET lines == SelectSeq(SplitOn(text, "\n"), LAMBDA l : l # <<>>)
        names == ColumnNames(SplitOn(lines[1], ","))
        read == [r \in 1..(Len(lines) - 1) |-> SplitOn(lines[r + 1], ",")]
        numeric(k) == \A r \in DOMAIN read : IsNumberText(read[r][k])
    IN  IF lines = <<>> THEN Raise("EmptyDataError")
        ELSE Ok(Table(names, [r \in DOMAIN read |-> r - 1],
                      [r \in DOMAIN read |->
                         [c \in Range(names) |->
                            LET k == CHOOSE j \in DOMAIN names : names[j] = c
                            IN  IF numeric(k) THEN NumberOf(read[r][k])
                                ELSE JoinChars(read[r][k])]]))

ReadCsvText(text, nrows) ==
    LET lines == SelectSeq(SplitOn(text, "\n"), LAMBDA l : l # <<>>)
        names == ColumnNames(SplitOn(lines[1], ","))
        read == [r \in 1..Min(nrows, Len(lines) - 1) |->
                    SplitOn(lines[r + 1], ",")]
        numeric(k) == \A r \in DOMAIN read : IsNumberText(read[r][k])
    IN  IF lines = <<>> THEN Raise("EmptyDataError")
        ELSE Ok(Table(names, [r \in DOMAIN read |-> r - 1],
                      [r \in DOMAIN read |->
                         [c \in Range(names) |->
                            LET k == CHOOSE j \in DOMAIN names : names[j] = c
                            IN  IF numeric(k) THEN NumberOf(read[r][k])
                                ELSE JoinChars(read[r][k])]]))

\* pd.read_csv("https://.../storms.csv", nrows=10)
StormsCell ==
    /\ nb = "getdata:csv"
    /\ last[1] = "start"
    /\ \E route \in Routes(Storms, <<>>) :
          LET got == UrlOpen(StormsUrl, route)
              read == IF got.end = "ok"
                      THEN ReadCsvText(CsvText(got.response.body), NRowsOption)
                      ELSE Raise(got.end)
          IN  /\ io' = got.io
              /\ steps' = IF got.end = "ok"
                           THEN << Step("fetch", "read_csv", "ok"),
                                   Step("parse", "read_csv", End(read)) >>
                           ELSE << Step("fetch", "read_csv", got.end) >>
              /\ out' = read
              /\ reads' = IF got.end = "ok" THEN <<"read_csv">> ELSE <<>>
              /\ last' = <<"read_csv", route>>
    /\ rhs' = NoSeries
    /\ pre' = NoTable
    /\ arg' = NoTable
    /\ UNCHANGED <<nb, csv, wb, runs, shell, disk, df, ns>>

-----------------------------------------------------------------------------
(* Iterating over several pages: the loop over the subpages of a root      *)
(* address.                                                                *)

start == 0

stop == 50

root_url == "www.codingforeconomists.com/page="

\* range(a, b)
RangeOf(a, b) == [k \in 1..(IF b > a THEN b - a ELSE 0) |-> a + k - 1]

\* root_url + str(i)
PageUrl(i) == root_url \o JoinChars(DigitsOf(i))

\* info_on_pages = [scraper(root_url + str(i)) for i in range(start, stop)]
\* scraper is any function of an address: it returns what it found on the
\* page or raises, and an exception ends the loop where it is raised,
\* leaving info_on_pages unbound.
InfoOnPages ==
    /\ nb = "getdata:pages"
    /\ last[1] = "start"
    /\ \E failing \in 0..(stop - start) :
          LET pages == RangeOf(start, stop)
              done == IF failing = 0 THEN Len(pages) ELSE failing
              calls == [k \in 1..done |-> PageUrl(pages[k])]
          IN  /\ last' = <<"info_on_pages", calls>>
              /\ ns' = IF failing = 0
                        THEN [ns EXCEPT !.info_on_pages =
                                 [k \in 1..done |-> <<"info", calls[k]>>]]
                        ELSE ns
              /\ out' = IF failing = 0 THEN Nothing ELSE Raise("Exception")
              /\ steps' = <<Step("fetch", "scraper",
                                 IF failing = 0 THEN "ok" ELSE "Exception")>>
    /\ io' = <<>>
    /\ reads' = <<>>
    /\ rhs' = NoSeries
    /\ pre' = NoTable
    /\ arg' = NoTable
    /\ UNCHANGED <<nb, csv, wb, runs, shell, disk, df>>

-----------------------------------------------------------------------------
(* Reading a PDF file from disk: open and pdftotext.                       *)

PdfPath == "data/pdf_with_table.pdf"

\* What the path can hold when the cell runs: nothing, a file that is not a
\* PDF, or a PDF of one page or more, each page the lines of text on it.
PdfLines == { << <<"T", "1">> >>, << <<"x">>, <<"y">> >> }

Files ==
    { [exists |-> FALSE, pdf |-> FALSE, pages |-> <<>>],
      [exists |-> TRUE, pdf |-> FALSE, pages |-> <<>>] } \cup
    { [exists |-> TRUE, pdf |-> TRUE, pages |-> p] :
        p \in UNION { [1..n -> PdfLines] : n \in 1..MaxPages } }

\* The text of a page: its lines from the top, each ended by a newline.
RECURSIVE PageText(_)
PageText(lines) ==
    IF lines = <<>> THEN <<>>
    ELSE lines[1] \o <<"\n">> \o PageText(Tail(lines))

PdfLastPageFirst(pages) ==
    [i \in DOMAIN pages |-> PageText(pages[Len(pages) + 1 - i])]

\* pdftotext.PDF(f): the texts of the pages, from the first page to the last.
Pdf(pages) ==
    [i \in DOMAIN pages |-> PageText(pages[i])]

\* "\n\n".join(pdf)
RECURSIVE JoinPages(_)
JoinPages(pages) ==
    IF pages = <<>> THEN <<>>
    ELSE IF Len(pages) = 1 THEN pages[1]
    ELSE pages[1] \o <<"\n", "\n">> \o JoinPages(Tail(pages))

PrintedChars == 220

\* with open(Path("data/pdf_with_table.pdf"), "rb") as f: pdf = pdftotext.PDF(f)
\* print("\n\n".join(pdf)[:220])
PdfCell ==
    /\ nb = "getdata:pdf"
    /\ last[1] = "start"
    /\ \E file \in Files :
          /\ io' = <<IoCall("open", PdfPath,
                            IF file.exists THEN "ok" ELSE "FileNotFoundError")>>
          /\ steps' = IF ~file.exists
                       THEN <<Step("fetch", "open", "FileNotFoundError")>>
                       ELSE << Step("fetch", "open", "ok"),
                               Step("parse", "pdftotext.PDF",
                                    IF file.pdf THEN "ok" ELSE "pdftotext.Error") >>
          /\ ns' = IF file.exists /\ file.pdf
                    THEN [ns EXCEPT !.pdf = Pdf(file.pages)] ELSE ns
          /\ out' = IF ~file.exists THEN Raise("FileNotFoundError")
                     ELSE IF ~file.pdf THEN Raise("pdftotext.Error")
                     ELSE LET text == JoinPages(Pdf(file.pages))
                          IN  [Nothing EXCEPT
                                 !.status = "ok",
                                 !.value = SubSeq(text, 1,
                                             Min(PrintedChars, Len(text)))]
          /\ reads' = IF file.exists THEN <<"pdftotext.PDF">> ELSE <<>>
          /\ last' = <<"pdf", file>>
    /\ rhs' = NoSeries
    /\ pre' = NoTable
    /\ arg' = NoTable
    /\ UNCHANGED <<nb, csv, wb, runs, shell, disk, df>>

-----------------------------------------------------------------------------
(* Cells of the quickstart notebook.                                       *)

StarwarsUrl ==
    "https://github.com/aeturrell/coding-for-economists/raw/main/data/starwars.csv"

\* df = pd.read_csv(url, index_col=0).dropna(subset=["species"])
LoadCell ==
    /\ nb = "quickstart"
    /\ After("start")
    /\ df' = LoadCsv(csv)
    /\ out' = Nothing
    /\ last' = <<"load">>
    /\ rhs' = NoSeries
    /\ pre' = NoTable
    /\ arg' = NoTable
    /\ io' = <<IoCall("GET", StarwarsUrl, "ok")>>
    /\ steps' = << Step("fetch", "read_csv", "ok"), Step("parse", "read_csv", "ok"),
                   Step("transform", "dropna", "ok") >>
    /\ reads' = <<"read_csv">>
    /\ UNCHANGED <<nb, csv, wb, runs, shell, disk, ns>>

\* df.loc[condition, columns]
FilterCell ==
    /\ nb = "quickstart"
    /\ After("load")
    /\ \E p \in Predicates, cols \in SelectLists :
          Pure(<<"filter", p, cols>>, Loc(df, p, cols))

\* df.sort_values(["height", "mass"])
SortKeys == <<"height", "mass">>

SortCell ==
    /\ nb = "quickstart"
    /\ After("filter")
    /\ \E ix \in SortIndexers(df, SortKeys) :
          Pure(<<"sort">>, Ok(Take(df, ix)))

\* df.sample(...)
SampleCell ==
    /\ nb = "quickstart"
    /\ After("sort")
    /\ \E call \in SampleCalls :
          IF SampleRejects(call, NRows(df))
          THEN Pure(<<"sample", call>>, Raise("ValueError"))
          ELSE /\ SamplingSize(call, NRows(df)) <= MaxSample
               /\ \E draw \in Choice(call, NRows(df)) :
                     Pure(<<"sample", call>>, Ok(Take(df, draw)))

\* df.rename(columns={"homeworld": "home_world"})
\* The cell before it, df.sample(5), binds no name and leaves df as it is:
\* the rename cell finds the kernel as the sort cell left it, and the run
\* goes on from there.
RenameCell ==
    /\ nb = "quickstart"
    /\ After("sort")
    /\ \E m \in RenameMappers : Pure(<<"rename", m>>, Ok(Rename(df, m)))

\* df['height_m'] = df['height']/100 ; df.head()
\* The assignment writes into the object df is bound to.
SetItemCell ==
    /\ nb = "quickstart"
    /\ After("rename")
    /\ rhs' = SeriesDivInt(ColumnOf(df, "height"), 100)
    /\ df' = SetColumn(df, "height_m", rhs')
    /\ out' = Ok(Head5(df'))
    /\ last' = <<"setitem">>
    /\ pre' = df
    /\ arg' = df'
    /\ io' = <<>>
    /\ steps' = <<Step("transform", "setitem", "ok")>>
    /\ UNCHANGED <<nb, csv, wb, runs, shell, disk, reads, ns>>

\* df = df.assign(height_m=df["height"] / 100) ; df.head()
\* assign works on a copy; df is bound to the copy.
AssignCell ==
    /\ nb = "quickstart"
    /\ After("setitem")
    /\ rhs' = SeriesDivInt(ColumnOf(df, "height"), 100)
    /\ df' = Assign(df, "height_m", rhs')
    /\ out' = Ok(Head5(df'))
    /\ last' = <<"assign">>
    /\ pre' = df
    /\ arg' = df
    /\ io' = <<>>
    /\ steps' = <<Step("transform", "assign", "ok")>>
    /\ UNCHANGED <<nb, csv, wb, runs, shell, disk, reads, ns>>

\* df.groupby("species")[["height", "mass"]].mean()
GroupByCell ==
    /\ nb = "quickstart"
    /\ After("assign")
    /\ Pure(<<"groupby">>, Ok(GroupByMean(df, "species", <<"height", "mass">>)))

\* df["mass_demean_species"] =
\*     df.groupby("species")["mass"].transform(lambda x: x - x.mean())
\* df.head()
TransformCell ==
    /\ nb = "quickstart"
    /\ After("groupby")
    /\ rhs' = GroupTransform(df, "species", "mass")
    /\ df' = SetColumn(df, "mass_demean_species", rhs')
    /\ out' = Ok(Head5(df'))
    /\ last' = <<"transform">>
    /\ pre' = df
    /\ arg' = df'
    /\ io' = <<>>
    /\ steps' = <<Step("transform", "transform", "ok")>>
    /\ UNCHANGED <<nb, csv, wb, runs, shell, disk, reads, ns>>

\* Series.std(): the sample standard deviation (ddof=1) of the non-NaN
\* values, NaN when there are fewer than two.  <<n, d, 2>> is the square
\* root of n/d.
Std(s) ==
    LET vals == SelectSeq(s, LAMBDA x : ~IsNaN(x))
        dev(k) == RatSub(vals[k], Mean(vals))
        var == RatDivInt(RatSum([k \in DOMAIN vals |-> RatMul(dev(k), dev(k))]),
                         Len(vals) - 1)
    IN  IF Len(vals) < 2 THEN NaN ELSE <<var[1], var[2], 2>>

\* T.agg([np.mean, np.std]): a row per function, a column per column of T.
Agg(T) ==
    Table(T.columns, <<"mean", "std">>,
          [r \in 1..2 |->
              [c \in Range(T.columns) |->
                  IF r = 1 THEN Mean(ColumnOf(T, c).values)
                  ELSE Std(ColumnOf(T, c).values)]])

\* The pandas a kernel of Python 3.8 can run: 1.x, or 2.0.
Pandas == {1, 2}

\* How LaTeX writes the column names that hold one of its special characters.
Escaped ==
    ("hair_color" :> "hair\\_color") @@ ("eye_color" :> "eye\\_color")

\* T.to_latex(caption=..., label=...): the text, line by line and cell by
\* cell (the cells of a line are joined by "&"; a number is written as the
\* number it prints, the column alignments are left out).  pandas 1.x
\* centers the table, writes "{}" over the index, escapes the names, and
\* exports a frame without rows or without columns as the one line
\* "Empty DataFrame ..." between the rules.
ToLatex(T, caption, label, pandas) ==
    LET header == <<IF pandas = 1 THEN "{}" ELSE "">> \o
                  [k \in DOMAIN T.columns |->
                      IF pandas = 1 /\ T.columns[k] \in DOMAIN Escaped
                      THEN Escaped[T.columns[k]] ELSE T.columns[k]]
        rows == [i \in 1..NRows(T) |->
                    <<T.index[i]>> \o
                    [k \in DOMAIN T.columns |-> T.data[i][T.columns[k]]]]
        body == IF pandas = 1 /\ (NRows(T) = 0 \/ T.columns = <<>>)
                THEN << <<"Empty DataFrame">> >>
                ELSE <<header, <<"\\midrule">> >> \o rows
    IN  << <<"\\begin{table}">> >> \o
        (IF pandas = 1 THEN << <<"\\centering">> >> ELSE <<>>) \o
        << <<"\\caption", caption>>, <<"\\label", label>>,
           <<"\\begin{tabular}">>, <<"\\toprule">> >> \o body \o
        << <<"\\bottomrule">>, <<"\\end{tabular}">>, <<"\\end{table}">> >>

\* table = df[["mass", "height"]].agg([np.mean, np.std]) ; table
AggCell ==
    /\ nb = "quickstart"
    /\ After("transform")
    /\ ns' = [ns EXCEPT !.table = Agg(Select(df, <<"mass", "height">>))]
    /\ out' = Ok(ns'.table)
    /\ last' = <<"agg">>
    /\ rhs' = NoSeries
    /\ pre' = df
    /\ arg' = df
    /\ io' = <<>>
    /\ steps' = <<Step("transform", "agg", "ok")>>
    /\ UNCHANGED <<nb, csv, wb, runs, shell, disk, reads, df>>

\* print(table.to_latex(caption="A Table", label="tab:descriptive"))
ToLatexCell ==
    /\ nb = "quickstart"
    /\ After("agg")
    /\ \E pandas \in Pandas :
          /\ out' = [Nothing EXCEPT !.status = "ok",
                       !.value = ToLatex(ns.table, "A Table", "tab:descriptive",
                                         pandas)]
          /\ last' = <<"to_latex", pandas>>
    /\ rhs' = NoSeries
    /\ pre' = ns.table
    /\ arg' = ns.table
    /\ io' = <<>>
    /\ steps' = <<Step("export", "to_latex", "ok")>>
    /\ UNCHANGED <<nb, csv, wb, runs, shell, disk, reads, df, ns>>

LatexPath == "file.tex"

\* save_to_buffer(string, buf=path): the path is opened for writing and the
\* text written to it; a path that cannot be opened raises an OSError (the
\* IOError of Python 3), here PermissionError, and nothing is written.
SaveToBufferCreatesFile(files, path, text, writable) ==
    IF writable THEN [files |-> (path :> text) @@ files, end |-> "ok"]
    ELSE [files |-> (path :> <<>>) @@ files, end |-> "PermissionError"]

SaveToBuffer(files, path, text, writable) ==
    IF writable THEN [files |-> (path :> text) @@ files, end |-> "ok"]
    ELSE [files |-> files, end |-> "PermissionError"]

\* table.to_latex('file.tex', ...): the text goes to the file and the call
\* returns None.
ToLatexFileCell ==
    /\ nb = "quickstart"
    /\ After("to_latex")
    /\ \E pandas \in Pandas, writable \in BOOLEAN :
          LET text == ToLatex(ns.table, "A Table", "tab:descriptive", pandas)
              saved == SaveToBuffer(disk, LatexPath, text, writable)
          IN  /\ disk' = saved.files
              /\ out' = IF saved.end = "ok" THEN Nothing ELSE Raise(saved.end)
              /\ io' = <<IoCall("write", LatexPath, saved.end)>>
              /\ steps' = <<Step("export", "to_latex", saved.end)>>
              /\ last' = <<"to_latex_file", pandas, writable>>
    /\ rhs' = NoSeries
    /\ pre' = ns.table
    /\ arg' = ns.table
    /\ UNCHANGED <<nb, csv, wb, runs, shell, reads, df, ns>>

-----------------------------------------------------------------------------
(* A whole run of the quickstart notebook: a fresh kernel runs the cells   *)
(* from the first to the last and stops at the first exception.            *)

NoRuns == [log |-> <<>>, drawn |-> <<>>]

\* The files the runs are made on: as many lines as the largest sample
\* draws, or one fewer, each with a species and a mass, so that no line is
\* dropped.
RunFiles ==
    UNION { [1..n -> {r \in CsvRecords : r.species # NA /\ ~IsNaN(r.mass)}] :
              n \in (MaxSample - 1)..MaxSample }

NotebookSeed == 10

\* np.random.seed(s): the state of numpy's global generator, the seed it
\* was given and the number of draws made since.  Without the call the
\* state comes from the operating system and is no state seen before (-1).
SeedFromEntropy(s) == [seed |-> 0 - 1, made |-> 0]

Seed(s) == [seed |-> s, made |-> 0]

\* The draws the generator can return to a call: the generator is a
\* function of its state and of what it is asked, so a state and a call
\* seen before get the draw they got before.
Draws(generator, call, objLen, drawn) ==
    IF generator.seed >= 0 /\ <<generator, call, objLen>> \in DOMAIN drawn
    THEN {drawn[<<generator, call, objLen>>]}
    ELSE Choice(call, objLen)

\* np.random.seed(10) ; df = pd.read_csv(...).dropna(...) ; ... ; df.sample(n)
\* ; ... ; print(table.to_latex(...)): the cells of one run, on the file
\* csv, with n rows asked of sample (5 in the notebook; the files here are
\* shorter), under the pandas installed.  The cells that only show a value
\* (filter, sort, rename, groupby) leave nothing behind.
RunCells(n, pandas) ==
    LET generator == Seed(NotebookSeed)
        loaded == LoadCsv(csv)
        call == [by |-> "n", amount |-> n, replace |-> FALSE,
                 weighted |-> FALSE, weights |-> <<>>]
        metres == Assign(SetColumn(loaded, "height_m",
                           SeriesDivInt(ColumnOf(loaded, "height"), 100)),
                         "height_m",
                         SeriesDivInt(ColumnOf(loaded, "height"), 100))
        final == SetColumn(metres, "mass_demean_species",
                           GroupTransform(metres, "species", "mass"))
        table == Agg(Select(final, <<"mass", "height">>))
        text == ToLatex(table, "A Table", "tab:descriptive", pandas)
        Ran(sample, frame, latex, draw) ==
            /\ runs' = [log |-> Append(runs.log,
                                  [inputs |-> <<csv, n, pandas>>,
                                   sample |-> sample, df |-> frame,
                                   latex |-> latex]),
                        drawn |-> IF sample.status = "ok"
                                  THEN (<<generator, call, NRows(loaded)>>
                                           :> draw) @@ runs.drawn
                                  ELSE runs.drawn]
            /\ df' = frame
            /\ out' = IF sample.status = "ok"
                      THEN [Nothing EXCEPT !.status = "ok",
                                           !.value = latex]
                      ELSE sample
            /\ ns' = IF sample.status = "ok"
                     THEN [NoNames EXCEPT !.table = table] ELSE NoNames
            /\ steps' = << Step("fetch", "read_csv", "ok"),
                           Step("parse", "read_csv", "ok"),
                           Step("transform", "sample", End(sample)) >> \o
                        (IF sample.status = "ok"
                         THEN <<Step("export", "to_latex", "ok")>>
                         ELSE <<>>)
    IN  IF SampleRejects(call, NRows(loaded))
        THEN Ran(Raise("ValueError"), loaded, <<>>, <<>>)
        ELSE \E draw \in Draws(generator, call, NRows(loaded), runs.drawn) :
                Ran(Ok(Take(loaded, draw)), final, text, draw)

\* A run of the whole notebook.  Its inputs are the file at the address, the
\* number of rows asked of sample and the pandas installed; a later run is a
\* run on the inputs of the first.
RunAll ==
    /\ nb = "quickstart"
    /\ Len(runs.log) < MaxRuns
    /\ \E n \in 0..MaxSample, pandas \in Pandas :
          /\ runs.log # <<>> => <<csv, n, pandas>> = runs.log[1].inputs
          /\ RunCells(n, pandas)
    /\ last' = <<"run", Len(runs.log) + 1>>
    /\ io' = <<IoCall("GET", StarwarsUrl, "ok")>>
    /\ reads' = <<"read_csv">>
    /\ rhs' = NoSeries
    /\ pre' = NoTable
    /\ arg' = NoTable
    /\ UNCHANGED <<nb, csv, wb, disk, shell>>

-----------------------------------------------------------------------------
(* The provisioning script for Linux: a shell runs its commands, one after *)
(* the other.                                                              *)

Script ==
    << "sudo apt-get update -y",
       "sudo apt-get -y install graphviz graphviz-dev libgdal-dev build-essential",
       "sudo apt-get -y install libgeos-dev libproj-dev proj-data proj-bin",
       "poetry install",
       "poetry run python3.8 -m ipykernel install --user --name=codeforecon",
       "poetry run python3.8 -m spacy download en_core_web_sm",
       "conda init",
       "exec bash",
       "sudo conda install -y osmnx",
       "sudo conda install -y plotly" >>

\* No script is running.
NoShell == [how |-> "", line |-> 0, process |-> "", ran |-> <<>>]

\* How the script is run: the shell is given the file (bash script, or the
\* file is sourced), or reads the script on its standard input (bash <
\* script, or the lines pasted into a terminal).
Shells ==
    { [how |-> h, line |-> 1, process |-> "shell", ran |-> <<>>] :
        h \in {"file", "stdin"} }

Ran(command, status) == [command |-> command, status |-> status]

\* A command other than exec: the shell runs it and waits for it; the
\* script sets no errexit, so a failure does not stop the next line.
RunCommand ==
    /\ nb = "provision"
    /\ shell.process # ""
    /\ shell.line \in DOMAIN Script
    /\ Script[shell.line] # "exec bash"
    /\ \E status \in {0, 1} :
          shell' = [shell EXCEPT !.line = @ + 1,
                                 !.ran = Append(@, Ran(Script[shell.line], status))]
    /\ UNCHANGED <<nb, csv, wb, df, out, last, rhs, pre, arg, ns, io, steps,
                   disk, reads, runs>>

\* exec bash: the shell process is replaced by a new bash.  The new bash
\* reads its commands from its standard input: the rest of the script if
\* this is where the script came from, and otherwise not the script; the
\* shell that was reading the file is no more.  If bash cannot be executed
\* the shell, not being interactive, exits.
ExecBash ==
    /\ nb = "provision"
    /\ shell.process # ""
    /\ shell.line \in DOMAIN Script
    /\ Script[shell.line] = "exec bash"
    /\ \E found \in BOOLEAN :
          shell' = IF ~found
                   THEN [shell EXCEPT !.process = "",
                                      !.ran = Append(@, Ran("exec bash", 127))]
                   ELSE [shell EXCEPT
                           !.process = "bash",
                           !.line = IF shell.how = "stdin" THEN @ + 1
                                    ELSE Len(Script) + 1,
                           !.ran = Append(@, Ran("exec bash", 0))]
    /\ UNCHANGED <<nb, csv, wb, df, out, last, rhs, pre, arg, ns, io, steps,
                   disk, reads, runs>>

-----------------------------------------------------------------------------
(* Cell of the getting-data notebook *)

WorldBankApi == "https://api.worldbank.org/v2"

\* df = wb.download(...) ; df = df.reset_index()
\* df["country"] = df["country"].apply(lambda x: textwrap.fill(x, 10))
\* df = df.sort_values("EN.ATM.CO2E.PC") ; df.head()
WbCell ==
    /\ nb = "getdata"
    /\ After("start")
    /\ LET wrapped == SetColumn(WbFrame(wb), "country",
                                WrappedCountries(WbFrame(wb)))
       IN  \E ix \in SortIndexers(wrapped, <<Indicator>>) :
              /\ rhs' = WrappedCountries(WbFrame(wb))
              /\ df' = Take(wrapped, ix)
              /\ pre' = wrapped
              /\ arg' = wrapped
    /\ out' = Ok(Head5(df'))
    /\ last' = <<"wbsort">>
    /\ io' = <<IoCall("GET", WorldBankApi, "ok")>>
    /\ steps' = << Step("fetch", "wb.download", "ok"),
                   Step("parse", "wb.download", "ok"),
                   Step("normalize", "reset_index", "ok"),
                   Step("transform", "sort_values", "ok") >>
    /\ reads' = <<"wb.download">>
    /\ UNCHANGED <<nb, csv, wb, runs, shell, disk, ns>>

-----------------------------------------------------------------------------

Init ==
    /\ nb \in {"quickstart", "getdata", "getdata:api", "getdata:tables",
              "getdata:scrape", "getdata:pdf", "getdata:csv",
              "getdata:pages"}
    /\ csv \in IF nb = "quickstart" THEN CsvFiles ELSE {<<>>}
    /\ wb \in IF nb = "getdata" THEN WbValues ELSE {<<>>}
    /\ df = NoTable
    /\ out = Nothing
    /\ last = <<"start">>
    /\ rhs = NoSeries
    /\ pre = NoTable
    /\ arg = NoTable
    /\ ns = NoNames
    /\ io = <<>>
    /\ steps = <<>>
    /\ disk = <<>>
    /\ reads = <<>>
    /\ runs = NoRuns
    /\ shell = NoShell

Next ==
    \/ LoadCell
    \/ FilterCell
    \/ SortCell
    \/ SampleCell
    \/ RenameCell
    \/ SetItemCell
    \/ AssignCell
    \/ GroupByCell
    \/ TransformCell
    \/ AggCell
    \/ ToLatexCell
    \/ ToLatexFileCell
    \/ WbCell
    \/ OnsCell
    \/ ReadHtmlCell
    \/ PageCell
    \/ SoupCell
    \/ FindAllCell
    \/ TextCell
    \/ ProjectsCell
    \/ PdfCell
    \/ StormsCell
    \/ InfoOnPages

Spec == Init /\ [][Next]_vars

\* The runs of the whole quickstart notebook, one after the other, each
\* from a fresh kernel.
InitRuns == Init /\ nb = "quickstart" /\ csv \in RunFiles

SpecRuns == InitRuns /\ [][RunAll]_vars

\* A run of the provisioning script.  The shell goes on to the next
\* command as long as there is one: every command is run without a
\* question to answer (-y) and is taken to end.
InitScript ==
    /\ nb = "provision"
    /\ csv = <<>>
    /\ wb = <<>>
    /\ df = NoTable
    /\ out = Nothing
    /\ last = <<"start">>
    /\ rhs = NoSeries
    /\ pre = NoTable
    /\ arg = NoTable
    /\ ns = NoNames
    /\ io = <<>>
    /\ steps = <<>>
    /\ disk = <<>>
    /\ reads = <<>>
    /\ runs = NoRuns
    /\ shell \in Shells

NextScript ==
    \/ RunCommand
    \/ ExecBash

SpecScript ==
    InitScript /\ [][NextScript]_vars /\ WF_vars(RunCommand) /\ WF_vars(ExecBash)

-----------------------------------------------------------------------------
(* Properties *)

Call == last[2]

PosOf(idx, l) == CHOOSE i \in DOMAIN idx : idx[i] = l

Unique(s) == \A i, j \in DOMAIN s : s[i] = s[j] => i = j

\* Every row of R is the row of T with the same label, on R's columns.
RowsFrom(R, T) ==
    \A k \in 1..NRows(R) :
        /\ R.index[k] \in Range(T.index)
        /\ \A c \in Range(R.columns) :
              R.data[k][c] = T.data[PosOf(T.index, R.index[k])][c]

\* The rows of R stand in the order they have in T.
InOrderOf(R, T) ==
    \A a, b \in 1..NRows(R) :
        a < b => PosOf(T.index, R.index[a]) < PosOf(T.index, R.index[b])

PureCells == {"filter", "sort", "sample", "assign", "groupby", "wbsort"}

InPlaceCells == {"setitem", "transform"}

AssignedColumn == IF last[1] = "setitem" THEN "height_m" ELSE "mass_demean_species"

\* C1 as stated: every Transformer operation leaves the Table it was given
\* unchanged (same columns, column order, rows and row order).
C1_InputNeverMutated ==
    last[1] \in PureCells \cup InPlaceCells => arg = pre

\* C1 amended: filter, select, sort, sample, assign and group+aggregate leave
\* the Table they were given unchanged; the column assignment df[c] = ...
\* (derive column, transform-within-group) writes into the Table it was given,
\* which gains column c as its last column while its index, its row order and
\* its other columns stay as they were.
C1_InputMutatedOnlyBySetItem ==
    /\ last[1] \in PureCells => arg = pre
    /\ last[1] \in InPlaceCells =>
          /\ arg = df
          /\ arg.index = pre.index
          /\ arg.columns = Append(pre.columns, AssignedColumn)
          /\ \A i \in 1..NRows(pre) : \A c \in Range(pre.columns) :
                arg.data[i][c] = pre.data[i][c]

C1_Witness ==
    /\ last[1] = "transform"
    /\ NRows(pre) = MaxRows
    /\ arg # pre

\* C2: filtering an already filtered Table by the same predicate returns it
\* unchanged: Filter(Filter(T, p), p) = Filter(T, p).
C2_FilterIdempotent ==
    (last[1] = "filter" /\ last[3] = AllColumns) =>
        /\ out.status = "ok"
        /\ Loc(out.value, last[2], AllColumns) = out

C2_Witness ==
    /\ last[1] = "filter" /\ last[3] = AllColumns
    /\ NRows(out.value) >= 2
    /\ NRows(out.value) < NRows(df)

\* C3: the result of a filter is exactly the rows of the input that satisfy
\* the predicate, each once, in input order.
C3_FilterExact ==
    (last[1] = "filter" /\ last[3] = AllColumns) =>
        LET R == out.value IN
        /\ R.columns = df.columns
        /\ Range(R.index) =
              {df.index[i] : i \in {j \in 1..NRows(df) : Holds(last[2], df.data[j])}}
        /\ Unique(R.index)
        /\ RowsFrom(R, df)
        /\ InOrderOf(R, df)

C3_Witness ==
    /\ last[1] = "filter" /\ last[3] = AllColumns
    /\ NRows(df) = MaxRows
    /\ out.value.index = <<df.index[1], df.index[3]>>

C5_TransformKeepsRows ==
    last[1] = "transform" =>
        /\ rhs.index = pre.index
        /\ Len(rhs.values) = NRows(pre)
        /\ df.index = pre.index

C5_Witness ==
    /\ last[1] = "transform"
    /\ NRows(pre) = MaxRows
    /\ pre.data[1]["species"] = "Human"
    /\ pre.data[2]["species"] = "Droid"
    /\ pre.data[3]["species"] = "Human"

RECURSIVE SumOver(_, _)
SumOver(S, f) ==   \* sum of the integers f[i], i in S
    IF S = {} THEN 0
    ELSE LET i == CHOOSE x \in S : TRUE IN f[i] + SumOver(S \ {i}, f)

\* C6: the value transform-within-group writes for a row is the row's mass
\* minus the mean of the non-missing masses of the rows with the row's own
\* species; it is missing when the row's mass is.
C6_TransformOwnPartition ==
    last[1] = "transform" =>
        \A i \in 1..NRows(pre) :
            LET G == {j \in 1..NRows(pre) :
                         /\ pre.data[j]["species"] = pre.data[i]["species"]
                         /\ ~IsNaN(pre.data[j]["mass"])}
                total == SumOver(G, [j \in G |-> pre.data[j]["mass"][1]])
                v == df.data[i]["mass_demean_species"]
            IN  /\ v = rhs.values[i]
                /\ IsNaN(v) <=> IsNaN(pre.data[i]["mass"])
                /\ ~IsNaN(v) =>
                      v[1] * Cardinality(G) =
                         v[2] * (pre.data[i]["mass"][1] * Cardinality(G) - total)

C6_Witness ==
    /\ last[1] = "transform"
    /\ \E i, j \in 1..NRows(pre) :
          /\ pre.data[i]["species"] # pre.data[j]["species"]
          /\ pre.data[i]["mass"] = pre.data[j]["mass"]
          /\ ~IsNaN(rhs.values[i]) /\ ~IsNaN(rhs.values[j])
          /\ rhs.values[i] # rhs.values[j]

FracOutOfRange == Call.by = "frac" /\ (Call.amount < 0 \/ Call.amount > 2)

SizeOutOfRange == Call.by = "n" /\ (Call.amount < 0 \/ Call.amount > NRows(df))

WeightsMismatch == Call.weighted /\ Len(Call.weights) # NRows(df)

Rejected ==
    /\ out = Raise("ValueError")
    /\ arg = pre
    /\ df = pre

\* C8 as stated: sample fails, returns no Table and leaves its input
\* unchanged when the weights length differs from the row count, when frac is
\* outside [0, 1] or when the size is outside [0, row count], with or without
\* replacement.
C8_RejectsOutOfRange ==
    (last[1] = "sample" /\ (WeightsMismatch \/ FracOutOfRange \/ SizeOutOfRange))
        => Rejected

\* C8 amended: sample fails (ValueError), returns no Table and leaves its
\* input unchanged when the weights length differs from the row count, when
\* frac or the size is negative, and, without replacement, when frac is above 1
\* or the size above the row count; with replacement a size above the row
\* count or a frac above 1 is accepted on a non-empty Table and that many rows
\* of the input are returned.
C8_RejectsUnlessUpsampling ==
    /\ (/\ last[1] = "sample"
        /\ \/ WeightsMismatch
           \/ Call.amount < 0
           \/ ~Call.replace /\ (FracOutOfRange \/ SizeOutOfRange))
          => Rejected
    /\ (/\ last[1] = "sample"
        /\ Call.replace /\ ~Call.weighted
        /\ Call.amount >= 0
        /\ FracOutOfRange \/ SizeOutOfRange
        /\ NRows(df) >= 1)
          => /\ out.status = "ok"
             /\ NRows(out.value) = SamplingSize(Call, NRows(df))
             /\ NRows(out.value) > NRows(df)
             /\ RowsFrom(out.value, df)
             /\ arg = pre

C8_Witness ==
    /\ last[1] = "sample"
    /\ Call.by = "n" /\ Call.replace /\ ~Call.weighted
    /\ NRows(df) = 1
    /\ NRows(out.value) = 2

SortIn == pre

SortOut == IF last[1] = "sort" THEN out.value ELSE df

SortBy == IF last[1] = "sort" THEN SortKeys ELSE <<Indicator>>

Tied(r1, r2, keys) == ~RowLess(r1, r2, keys) /\ ~RowLess(r2, r1, keys)

SortedPermutation ==
    /\ SortOut.columns = SortIn.columns
    /\ NRows(SortOut) = NRows(SortIn)
    /\ Range(SortOut.index) = Range(SortIn.index)
    /\ RowsFrom(SortOut, SortIn)
    /\ \A a, b \in 1..NRows(SortOut) :
          a < b => ~RowLess(SortOut.data[b], SortOut.data[a], SortBy)

TiesInInputOrder(rows) ==
    \A a, b \in rows :
        (a < b /\ Tied(SortOut.data[a], SortOut.data[b], SortBy)) =>
            PosOf(SortIn.index, SortOut.index[a])
                < PosOf(SortIn.index, SortOut.index[b])

\* C9 as stated: a sort returns the rows of its input ordered by the keys,
\* and rows equal on all the keys keep the relative order of the input.
C9_SortStable ==
    last[1] \in {"sort", "wbsort"} =>
        /\ SortedPermutation
        /\ TiesInInputOrder(1..NRows(SortOut))

\* C9 amended: a sort returns the rows of its input ordered by the keys
\* (missing values last); rows equal on all the keys keep the relative order
\* of the input when the sort has several keys, and when it has a single key
\* only the rows whose key is missing do.
C9_SortStableOnSeveralKeys ==
    last[1] \in {"sort", "wbsort"} =>
        /\ SortedPermutation
        /\ Len(SortBy) > 1 => TiesInInputOrder(1..NRows(SortOut))
        /\ Len(SortBy) = 1 =>
              TiesInInputOrder({a \in 1..NRows(SortOut) :
                                   IsNaN(SortOut.data[a][SortBy[1]])})

C9_Witness ==
    /\ last[1] = "sort"
    /\ NRows(pre) = MaxRows
    /\ Tied(pre.data[1], pre.data[3], SortKeys)
    /\ RowLess(pre.data[2], pre.data[1], SortKeys)
    /\ out.value.index = <<pre.index[2], pre.index[1], pre.index[3]>>

\* C10: a select returns exactly the listed columns in the order listed,
\* with every row of its input in input order, and fails with KeyError,
\* returning no Table, when a listed column is absent.
C10_SelectListedColumns ==
    (last[1] = "filter" /\ last[3] # AllColumns) =>
        IF HasColumns(df, last[3])
        THEN /\ out.status = "ok"
             /\ out.value.columns = last[3]
             /\ \A k \in 1..NRows(out.value) :
                   DOMAIN out.value.data[k] = Range(last[3])
             /\ out.value.index = Loc(df, last[2], AllColumns).value.index
             /\ RowsFrom(out.value, df)
        ELSE /\ out = Raise("KeyError")
             /\ arg = pre

C10_Witness ==
    /\ last[1] = "filter"
    /\ last[3] = <<"species", "name">>
    /\ NRows(out.value) >= 2
    /\ out.value.columns # Select(df, <<"name", "species">>).columns

\* The data-model invariant of a Table: all its columns are as long as its
\* index, and no two of them have the same name.
SameLength(T) ==
    /\ Len(T.data) = Len(T.index)
    /\ \A i \in 1..Len(T.data) : DOMAIN T.data[i] = Range(T.columns)

WellFormed(T) == Unique(T.columns) /\ SameLength(T)

\* The cells whose value is a Table.
TableCells ==
    {"filter", "sort", "sample", "rename", "setitem", "assign", "groupby",
     "transform", "wbsort"}

ShownTable == last[1] \in TableCells /\ out.status = "ok"

\* The dictionary renames a column to the name of a column that keeps its name.
NameTaken(T, m) ==
    \E c \in Range(T.columns) \cap DOMAIN m :
        m[c] # c /\ m[c] \in Range(T.columns) \ DOMAIN m

Occurrences(s, x) == Cardinality({i \in DOMAIN s : s[i] = x})

\* C11 as stated: after every operation, a rename to a name that already
\* exists and the adding of a column whose name already exists included,
\* every Table has pairwise distinct column names and columns of one length.
C11_TablesWellFormed ==
    /\ WellFormed(df)
    /\ ShownTable => WellFormed(out.value)

\* C11 amended: after every operation every Table has columns of one length;
\* its column names are pairwise distinct after every operation but a rename
\* (adding a column whose name already exists overwrites that column), and
\* after a rename unless it renames a column to the name of a column that
\* keeps its name: that rename returns a Table with two columns of that name.
C11_NamesDistinctUnlessRenamedOnto ==
    /\ WellFormed(df)
    /\ ShownTable => SameLength(out.value)
    /\ (ShownTable /\ last[1] # "rename") => Unique(out.value.columns)
    /\ (ShownTable /\ last[1] = "rename") =>
          /\ ~NameTaken(df, last[2]) => Unique(out.value.columns)
          /\ NameTaken(df, last[2]) =>
                \E c \in Range(df.columns) \cap DOMAIN last[2] :
                    Occurrences(out.value.columns, last[2][c]) = 2

C11_Witness ==
    /\ last[1] = "rename"
    /\ DOMAIN last[2] = {"height", "mass"}
    /\ NRows(df) = MaxRows
    /\ out.value.columns[2] = "mass" /\ out.value.columns[3] = "height"
    /\ out.value.data[1]["mass"] = df.data[1]["height"]

\* The stage of the last cell's chain has run to its end without raising.
Done(stage) ==
    \E k \in DOMAIN steps : steps[k].stage = stage /\ steps[k].end = "ok"

\* C12: the Normalizer (type coercions, index selection, renames) returns a
\* Table with as many rows as its input, in the input's order, whenever it
\* succeeds.
C12_NormalizerKeepsRows ==
    /\ (last[1] = "ons" /\ Done("normalize")) =>
          /\ NRows(df) = NRows(pre)
          /\ NRows(df) = Len(ns.json_data.months)
          /\ \A i \in 1..NRows(df) :
                /\ df.data[i]["label"] = pre.data[i]["label"]
                /\ df.data[i]["label"] = ns.json_data.months[i].label
    /\ last[1] = "rename" =>
          /\ out.status = "ok"
          /\ out.value.index = df.index
          /\ NRows(out.value) = NRows(df)

C12_Witness ==
    /\ last[1] = "ons" /\ Done("normalize")
    /\ NRows(pre) = MaxMonths
    /\ df.index[1] = df.index[2]
    /\ df.data[1]["value"] # df.data[2]["value"]

\* The column the Normalizer of the ONS cell fails on, if any: the coercions
\* run in the order written, date first.
Unreadable(c) ==
    {i \in 1..NRows(pre) :
        IF c = "date" THEN ~IsDateText(pre.data[i][c])
        ELSE ~IsNumberText(pre.data[i][c])}

FailingColumn == IF Unreadable("date") # {} THEN "date" ELSE "value"

CoercionFails ==
    /\ last[1] = "ons" /\ Done("parse")
    /\ NRows(pre) > 0
    /\ Unreadable("date") \cup Unreadable("value") # {}

\* The whole operation is given up: the error ends the chain at the
\* Normalizer, no Table is returned or bound, and the input is as it was.
Aborted ==
    /\ out.status = "error" /\ out.error = "ValueError"
    /\ out.value = NoTable
    /\ Len(steps) = 3 /\ steps[3] = Step("normalize", "assign", "ValueError")
    /\ df = NoTable
    /\ arg = pre

PageRead == last[3][Len(last[3])].body

Pattern == last[2]

CellsOf(t) == Range(t.head) \cup UNION {Range(row) : row \in Range(t.body)}

\* The list holds one Table per element of tables, in their order: the
\* header's texts as column names, one row per body row.
OneTablePer(list, tables) ==
    /\ Len(list) = Len(tables)
    /\ \A k \in DOMAIN tables :
          /\ Len(list[k].columns) = Len(tables[k].head)
          /\ \A c \in DOMAIN tables[k].head :
                list[k].columns[c] = CellText(tables[k].head[c])
          /\ NRows(list[k]) = Len(tables[k].body)
          /\ \A i \in DOMAIN tables[k].body : \A c \in DOMAIN tables[k].head :
                list[k].data[i][list[k].columns[c]] = CellText(tables[k].body[i][c])

NoList == out = Raise("ValueError") /\ ns.df_list = <<>> /\ df = NoTable

\* C14 as stated: with a substring filter read_html returns one Table per
\* <table> element whose rendered text contains the substring, in document
\* order, and fails, returning no list, when there is none; without a filter
\* it returns one Table per <table> element in document order.
C14_TablesByRenderedText ==
    (last[1] = "read_html" /\ Done("fetch")) =>
        LET wanted == SelectSeq(PageRead, LAMBDA t :
                          \E cell \in CellsOf(t) : Search("Sweden", CellText(cell)))
        IN  IF Pattern = "Sweden"
            THEN IF wanted = <<>> THEN NoList
                 ELSE out.status = "ok" /\ OneTablePer(ns.df_list, wanted)
            ELSE out.status = "ok" /\ OneTablePer(ns.df_list, PageRead)

\* C14 amended: with a substring filter read_html returns one Table per
\* <table> element that has a text node containing the substring, in document
\* order; without a filter it returns one Table per <table> element that has
\* a text node which is not empty, in document order; in both cases it fails
\* (ValueError), returning no list, when there is no such element.
C14_TablesByTextNode ==
    (last[1] = "read_html" /\ Done("fetch")) =>
        LET Found(text) == IF Pattern = "Sweden" THEN Search("Sweden", text)
                           ELSE text # ""
            wanted == SelectSeq(PageRead, LAMBDA t :
                          \E cell \in CellsOf(t) : \E i \in DOMAIN cell :
                              Found(cell[i]))
        IN  IF wanted = <<>> THEN NoList
            ELSE /\ out.status = "ok"
                 /\ OneTablePer(ns.df_list, wanted)
                 /\ df = ns.df_list[1]

C14_Witness ==
    /\ last[1] = "read_html" /\ Done("parse")
    /\ Pattern = "Sweden"
    /\ Len(PageRead) = MaxTables
    /\ ~Matches(PageRead[1], "Sweden")
    /\ Len(ns.df_list) = 1
    /\ NRows(df) = 2 /\ df.data[1]["Host"] = "Sweden"

-----------------------------------------------------------------------------
\* The members of a set of positions, smallest first.
RECURSIVE Ascending(_)
Ascending(S) ==
    IF S = {} THEN <<>>
    ELSE LET first == CHOOSE k \in S : \A j \in S : k <= j
         IN  <<first>> \o Ascending(S \ {first})

\* The tags of the soup with the given name (and class attribute, when one
\* is asked for), wherever they are in the tree.
TagsOf(name, class) ==
    { j \in DOMAIN ns.soup :
        /\ ns.soup[j].kind = "tag"
        /\ ns.soup[j].name = name
        /\ class # <<>> => ns.soup[j].class = class }

\* C15: find_all(tag, attributes) gives exactly the nodes of the document
\* that have the tag and the attributes, in document order; reading the
\* answer again from its start gives the same nodes; when no node matches,
\* the answer is the empty sequence and not an error.
C15_FindAllExactInOrder ==
    nb = "getdata:scrape" =>
      /\ last[1] \in {"find_all", "text", "projects"} =>
            ns.all_paras = Ascending(TagsOf("p", <<>>))
      /\ last[1] = "find_all" =>
            /\ out.status = "error" <=> Cardinality(TagsOf("p", <<>>)) < 2
            /\ out.status = "ok" => out.value = ns.all_paras[2]
      /\ last[1] = "text" =>
            out.value = Text(ns.soup, Ascending(TagsOf("p", <<>>))[2])
      /\ last[1] = "projects" =>
            LET found == Ascending(TagsOf("div", ProjectClass))
            IN  /\ out.status = "ok"
                /\ ns.projects =
                     [k \in DOMAIN found |-> Strip(Text(ns.soup, found[k]))]

\* A page with a paragraph inside a project entry has been searched for its
\* paragraphs, read twice, and for its project entries.
C15_Witness ==
    /\ nb = "getdata:scrape"
    /\ last[1] = "projects"
    /\ ns.projects # <<>>
    /\ \E k \in DOMAIN ns.all_paras : ns.soup[ns.all_paras[k]].parent # 0
    /\ \E j \in DOMAIN ns.soup :
          ns.soup[j].kind = "tag" /\ ns.soup[j].name = "div"
          /\ j \notin TagsOf("div", ProjectClass)

-----------------------------------------------------------------------------
\* Reading an exported text back: the line that is the given rule, the
\* names in the cells of the header (the line between the top rule and the
\* middle rule, after the cell over the index), and the number of lines of
\* data (between the middle rule, or the top rule when there is none, and
\* the bottom rule).
RuleAt(text, rule) ==
    IF \E k \in DOMAIN text : Len(text[k]) = 1 /\ text[k][1] = rule
    THEN CHOOSE k \in DOMAIN text : Len(text[k]) = 1 /\ text[k][1] = rule
    ELSE 0

Unescape(cell) ==
    IF \E n \in DOMAIN Escaped : Escaped[n] = cell
    THEN CHOOSE n \in DOMAIN Escaped : Escaped[n] = cell
    ELSE cell

ExportedNames(text) ==
    IF RuleAt(text, "\\midrule") = 0 THEN <<>>
    ELSE LET header == text[RuleAt(text, "\\toprule") + 1]
         IN  [k \in 1..(Len(header) - 1) |-> Unescape(header[k + 1])]

ExportedRows(text) ==
    RuleAt(text, "\\bottomrule") - 1 -
    (IF RuleAt(text, "\\midrule") = 0 THEN RuleAt(text, "\\toprule")
     ELSE RuleAt(text, "\\midrule"))

RoundTrips(T, text) ==
    /\ ExportedNames(text) = T.columns
    /\ ExportedRows(text) = NRows(T)

-----------------------------------------------------------------------------
\* The rows of df in the partition of a species whose value in a column is
\* not null.
NonNull(species, c) ==
    { i \in 1..NRows(df) :
        df.data[i]["species"] = species /\ ~IsNaN(df.data[i][c]) }

\* C17: the mean of a partition is taken over the partition's non-null
\* values only: it is their sum divided by their number, so a null neither
\* counts as zero nor makes the mean null, and the mean is null only when
\* the partition has no non-null value.
C17_MeanSkipsNulls ==
    last[1] = "groupby" =>
      \A g \in 1..NRows(out.value) : \A c \in {"height", "mass"} :
         LET rows == NonNull(out.value.index[g], c)
             mean == out.value.data[g][c]
         IN  IF rows = {} THEN IsNaN(mean)
             ELSE /\ ~IsNaN(mean)
                  /\ \A i \in rows : df.data[i][c][2] = 1
                  /\ mean[1] * Cardinality(rows) =
                       mean[2] * SumOver(rows, [i \in rows |-> df.data[i][c][1]])

\* A partition of two rows, one with a mass and one without, and another
\* partition whose only mass is null, have been averaged.
C17_Witness ==
    /\ last[1] = "groupby"
    /\ \E g \in 1..NRows(out.value) :
          /\ Cardinality(NonNull(out.value.index[g], "mass")) = 1
          /\ Cardinality(NonNull(out.value.index[g], "height")) = 2
    /\ \E g \in 1..NRows(out.value) : IsNaN(out.value.data[g]["mass"])

-----------------------------------------------------------------------------
\* No call of the last cell comes after a call that failed.
NoCallAfterFailure ==
    \A k \in DOMAIN io : k < Len(io) => io[k].end \in {"ok", "redirect"}

-----------------------------------------------------------------------------
\* The final answer to the fetch of the last cell.
FinalOf(route) == route[Len(route)]

\* The fetch the last cell made failed: the host did not answer or the
\* answer's status is not 2xx; the path holds no file.
NetworkFailed ==
    \/ nb = "getdata:api" /\ last[1] = "ons" /\ FinalOf(last[2]).status # 200
    \/ nb = "getdata:tables" /\ last[1] = "read_html"
          /\ FinalOf(last[3]).status # 200
    \/ nb = "getdata:scrape" /\ last[1] = "page"
          /\ FinalOf(last[2]).status # 200

PathMissing == nb = "getdata:pdf" /\ last[1] = "pdf" /\ ~last[2].exists

Parsed == \E k \in DOMAIN steps : steps[k].stage = "parse"

\* C19: a failed fetch hands nothing to the Parser: when the host is
\* unreachable or the status is not 2xx the fetch ends with a network error,
\* when the local path is missing it ends with a not-found error, and in
\* these cases no name is bound to a result and no body is parsed (a page
\* that is parsed was fetched with status 2xx).
C19_FailedFetchNeverParsed ==
    /\ NetworkFailed =>
          /\ out.status = "error"
          /\ out.error \in {"ConnectionError", "TooManyRedirects", "HTTPError",
                            "URLError"}
          /\ ~Parsed
          /\ ns = NoNames
    /\ PathMissing =>
          /\ out.status = "error"
          /\ out.error = "FileNotFoundError"
          /\ ~Parsed
          /\ ns = NoNames
    /\ nb = "getdata:scrape" /\ last[1] = "soup" => ns.page.status = 200

-----------------------------------------------------------------------------
\* The place of a stage in the pipeline.
StageNo(stage) == CHOOSE k \in DOMAIN Stages : Stages[k] = stage

\* The stages of the last cell ran one after the other in the order of the
\* pipeline, each at most once, and each but the last returned.
StagesInOrder ==
    \A k \in DOMAIN steps :
       /\ steps[k].stage \in Range(Stages)
       /\ k < Len(steps) =>
             /\ StageNo(steps[k].stage) < StageNo(steps[k + 1].stage)
             /\ steps[k].end = "ok"

\* C20: the stages of one use case run in the fixed order Fetcher, Parser,
\* Normalizer, Transformer, Exporter, each at most once and one at a time,
\* and no stage starts before the stage before it has completed
\* successfully: the Parser does not start on a fetch that failed.
C20_StagesInFixedOrder ==
    /\ StagesInOrder
    /\ Parsed => ~NetworkFailed

-----------------------------------------------------------------------------
\* A cell that raised stopped at the stage that raised: the error shown is
\* that stage's, every stage before it returned, no stage follows it, no
\* Table or figure is shown, none is bound by the cell of the ONS chain, and
\* no call is made again.
RaisedFast ==
    out.status = "error" =>
        /\ steps # <<>>
        /\ steps[Len(steps)].end = out.error
        /\ \A k \in 1..(Len(steps) - 1) : steps[k].end = "ok"
        /\ out.value = NoTable
        /\ last[1] = "ons" => df = NoTable
        /\ NoCallAfterFailure

\* C21: the pipeline fails fast: when a stage fails, the first error is the
\* one the caller sees, no later stage runs, no Table or exported output is
\* produced and the stage is not tried again; a fetch that fails (no answer,
\* or a status that is not 2xx) is the first such stage.
C21_FailsFast ==
    /\ RaisedFast
    /\ NetworkFailed =>
          /\ out.status = "error"
          /\ Len(steps) = 1
          /\ steps[1].stage = "fetch"

-----------------------------------------------------------------------------
\* C22: the Exporter has no effect besides the write to the sink it is
\* given: the Table is as it was; without a sink nothing is written and the
\* formatted text is returned; with a sink the text is in the file; with a
\* sink that cannot be written the export fails with an IOError (OSError)
\* and nothing is written.  No other cell writes a file.
C22_ExportWritesOnlyToSink ==
    /\ last[1] \in {"to_latex", "to_latex_file"} =>
          arg = pre /\ ns.table = pre
    /\ last[1] = "to_latex" =>
          /\ out.status = "ok" /\ RoundTrips(ns.table, out.value)
          /\ io = <<>> /\ disk = <<>>
    /\ last[1] = "to_latex_file" =>
          IF last[3]
          THEN /\ out = Nothing
               /\ DOMAIN disk = {LatexPath}
               /\ RoundTrips(ns.table, disk[LatexPath])
          ELSE /\ out.status = "error" /\ out.error = "PermissionError"
               /\ disk = <<>>
    /\ last[1] # "to_latex_file" => disk = <<>>

\* The export to a file that cannot be written has failed.
C22_Witness ==
    /\ last[1] = "to_latex_file" /\ ~last[3]
    /\ out.status = "error"
    /\ ~IsNaN(ns.table.data[2]["mass"])

-----------------------------------------------------------------------------
(* Reading a csv file                                                      *)

CsvRead == nb = "getdata:csv" /\ last[1] = "read_csv" /\ out.status = "ok"

Served == FinalOf(last[2]).body

\* The two fields of a header line, as texts.
HeaderFields(header) ==
    << IF header[1] = "," THEN "" ELSE header[1], header[Len(header)] >>

\* The rows are the first data lines of the file, in file order, up to the
\* row limit: row r holds the number r of line r, and the second field of
\* the line, a number if every line read holds one there.
RowsInFileOrder ==
    LET T == out.value
        word == Served.word \in 1..NRows(T)
    IN  /\ NRows(T) = Min(NRowsOption, Served.n)
        /\ T.index = [r \in 1..NRows(T) |-> r - 1]
        /\ \A r \in 1..NRows(T) :
              /\ T.data[r][T.columns[1]] = Num(r)
              /\ word /\ r = Served.word => T.data[r][T.columns[2]] = "x"
              /\ word /\ r # Served.word => T.data[r][T.columns[2]] = "2"
              /\ ~word => T.data[r][T.columns[2]] = Num(2)

\* C23 as stated: the column names are the header fields in header order,
\* and the rows are the data lines in file order, cut at the row limit.
C23_ColumnsAreHeaderFields ==
    CsvRead =>
        /\ out.value.columns = HeaderFields(Served.header)
        /\ RowsInFileOrder

\* C23, amended: the column names are the header fields in header order
\* where these are distinct and not empty; an empty field is named
\* "Unnamed: k" after its position k from 0, and a repeated field gets the
\* suffix ".1".  The rows are the data lines in file order, empty lines
\* left out, and with nrows given they are the first nrows of them, or all
\* of them if the file has fewer.
C23_ColumnsNamedAfterHeader ==
    CsvRead =>
        LET fields == HeaderFields(Served.header)
        IN  /\ Len(out.value.columns) = 2
            /\ out.value.columns[1] =
                  (IF fields[1] = "" THEN "Unnamed: 0" ELSE fields[1])
            /\ out.value.columns[2] =
                  (IF fields[2] = fields[1] THEN fields[2] \o ".1"
                   ELSE fields[2])
            /\ RowsInFileOrder

C23_Witness ==
    /\ CsvRead
    /\ Served.n > NRowsOption
    /\ Served.blank
    /\ NRows(out.value) = NRowsOption
    /\ out.value.columns = <<"a", "b">>

C23_WitnessUnnamed ==
    /\ CsvRead
    /\ Served.n > 0
    /\ out.value.columns[1] = "Unnamed: 0"

-----------------------------------------------------------------------------
(* Text of a PDF file                                                      *)

PdfRead == nb = "getdata:pdf" /\ last[1] = "pdf" /\ out.status = "ok"

\* Where the text of page i starts in the joined text: after the texts of
\* the pages before it and the two newlines after each.
RECURSIVE StartOf(_, _)
StartOf(texts, i) ==
    IF i = 1 THEN 0 ELSE StartOf(texts, i - 1) + Len(texts[i - 1]) + 2

\* C24: extraction gives one text per page of the file, the text of page i
\* at position i, and the joined text holds the text of page i at its place
\* before the text of page i + 1, for every i (the cell shows the joined
\* text up to its first 220 characters: the whole of it if it is shorter).
C24_PageTextsInPageOrder ==
    PdfRead =>
        LET pages == last[2].pages
            texts == ns.pdf
        IN  /\ Len(texts) = Len(pages)
            /\ \A i \in DOMAIN pages : texts[i] = PageText(pages[i])
            /\ Len(out.value) < PrintedChars =>
                  /\ \A i \in DOMAIN pages :
                        SubSeq(out.value, StartOf(texts, i) + 1,
                               StartOf(texts, i) + Len(texts[i])) = texts[i]
                  /\ Len(out.value) =
                        StartOf(texts, Len(texts)) + Len(texts[Len(texts)])

C24_Witness ==
    /\ PdfRead
    /\ Len(ns.pdf) >= 2
    /\ ns.pdf[1] # ns.pdf[2]
    /\ Len(out.value) < PrintedChars

-----------------------------------------------------------------------------
(* The response a fetch returned, and its readers                          *)

PageBound == nb = "getdata:scrape" /\ ns.page # NoNames.page

Parses == {"BeautifulSoup", "json", "read_html", "read_csv", "wb.download",
           "pdftotext.PDF"}

SoupMade == nb = "getdata:scrape" /\ last[1] \notin {"start", "page"}

\* C25 as stated: the content of the response never changes, the response
\* is read once, by its parse, and the name page holds it no longer once the
\* parse is done.
C25_ReadOnceThenDiscarded ==
    [][ /\ PageBound => ns'.page \in {ns.page, NoNames.page}
        /\ Len(reads') <= 1
        /\ SoupMade' => ~PageBound' ]_vars

\* C25, amended: the content of the response never changes and it is
\* parsed at most once; in the scraping section the name page holds it from
\* the fetch to the end of the run, its text is read twice, first to show
\* its first 300 characters and then by the one parse, and by nothing after
\* that; everywhere else the one read is the parse.
C25_UnchangedAndParsedOnce ==
    [][ /\ PageBound => ns'.page = ns.page
        /\ Cardinality({k \in DOMAIN reads' : reads'[k] \in Parses}) <= 1
        /\ nb # "getdata:scrape" => Len(reads') <= 1
        /\ PageBound' =>
              /\ last'[1] = "page" => ns'.page.text = FinalOf(last'[2]).body
              /\ reads' = IF SoupMade' THEN <<"text[:300]", "BeautifulSoup">>
                          ELSE <<"text[:300]">> ]_vars

C25_Witness ==
    /\ PageBound
    /\ last[1] = "find_all"
    /\ reads = <<"text[:300]", "BeautifulSoup">>
    /\ ns.page.status = 200
    /\ ns.soup # <<>>

-----------------------------------------------------------------------------
(* The loop over the subpages                                              *)

Looped == nb = "getdata:pages" /\ last[1] = "info_on_pages"

\* The calls of scraper are those for page=first, page=first+1, ... in this
\* order, one call each, as far as the loop went.
CallsFrom(first) ==
    \A k \in DOMAIN last[2] : last[2][k] = PageUrl(first + k - 1)

\* C26: the loop calls scraper once for each of the first 50 subpages,
\* page=1 to page=50, in increasing order, and for no other address.
C26_ScraperCalledForFirst50 ==
    Looped /\ out.status # "error" =>
        /\ Len(last[2]) = 50
        /\ CallsFrom(1)

\* What the loop does: 50 calls, for page=0 to page=49, in increasing
\* order, each address once.
ScraperCalledFromZero ==
    Looped =>
        /\ CallsFrom(0)
        /\ out.status # "error" =>
              /\ Len(last[2]) = 50
              /\ last[2][50] = "www.codingforeconomists.com/page=49"
              /\ Len(ns.info_on_pages) = 50
        /\ \A j, k \in DOMAIN last[2] : j # k => last[2][j] # last[2][k]

-----------------------------------------------------------------------------
(* Adding a column: assignment and assign                                  *)

Metres(T) == SeriesDivInt(ColumnOf(T, "height"), 100)

\* T with the column height_m holding height / 100: where height_m stands
\* if T has it, after all the columns of T if not.
WithMetres(T, R) ==
    /\ R.index = T.index
    /\ R.columns = IF "height_m" \in Range(T.columns) THEN T.columns
                   ELSE T.columns \o <<"height_m">>
    /\ \A i \in 1..NRows(T) :
          /\ R.data[i]["height_m"] = RatDivInt(T.data[i]["height"], 100)
          /\ \A c \in Range(T.columns) \ {"height_m"} :
                R.data[i][c] = T.data[i][c]

\* The cells that bind df or write into it.
Binds == {"load", "setitem", "assign", "transform"}

-----------------------------------------------------------------------------
(* Two runs of the notebook                                                *)

-----------------------------------------------------------------------------
(* The provisioning script                                                 *)

Commands == [k \in DOMAIN shell.ran |-> shell.ran[k].command]

\* The commands run so far are the first lines of the script, in file
\* order, each once.
RanInFileOrder ==
    /\ Len(Commands) <= Len(Script)
    /\ Commands = SubSeq(Script, 1, Len(Commands))

\* C29: a run of the script runs every step, in file order; the two conda
\* installs are eventually run, after the shell replacement.
C29_EveryStepEventuallyRuns ==
    <>(Commands = Script)

\* What holds of every run: the steps run are run in file order, whatever
\* their exit statuses, up to exec bash; the shell given the script as a
\* file runs nothing after exec bash.
StopsAtExecBash ==
    /\ RanInFileOrder
    /\ shell.how = "file" => Len(Commands) <= 8
    /\ shell.process = "" => Len(Commands) <= 8

====
